---------------------------- MODULE Spec2Model ----------------------------
(***************************************************************************)
(* A model of LastMinute.ai's pipeline engine (src/pipeline_graph.py):     *)
(*   - the rate-limited retrying image client  (_generate_image),          *)
(*   - the bounded fan-out of generate_story_visuals,                      *)
(*   - the sequential pipeline graph             (build_graph/run_pipeline).*)
(* Each part has its own specification over the module's variables; the    *)
(* variables of the other parts stay at their initial values.              *)
(***************************************************************************)
EXTENDS Integers, Sequences, FiniteSets, TLC

VARIABLES
    \* ---- image client (_generate_image) ----
    imgLock,       \* _IMG_LOCK: 0 when free, else the caller holding it
    lastCallAge,   \* time.monotonic() - _IMG_LAST_CALL, saturated at _IMG_MIN_INTERVAL
    sendAge,       \* seconds since the endpoint last saw a request (saturated), -1: none yet
    minSendGap,    \* smallest spacing the endpoint observed between two requests (saturated)
    minStampGap,   \* smallest distance between two successive values of _IMG_LAST_CALL (saturated)
    pc,            \* per caller: position inside _generate_image
    attempt,       \* per caller: the loop variable `attempt`
    timer,         \* per caller: seconds left of the time.sleep() it is in
    sent,          \* per caller: number of _http.post calls issued by this call
    result,        \* per caller: the value returned ("pending" until it returns)
    endpoint,      \* behaviour of the image endpoint in this run
    \* ---- fan-out of generate_story_visuals ----
    beats,         \* the local list `beats`: beats[bi].image_steps[si]
    jobs,          \* the local list `jobs` of (bi, si, prompt)
    fut,           \* per job: its future (state, and outcome once finished)
    merged,        \* number of futures the as_completed loop has handled
    fanPc,         \* position of generate_story_visuals' fan-out
    \* ---- pipeline driver (run_pipeline) ----
    state,         \* the graph's state: the PipelineState dict
    node,          \* the node to run next, "END", or "raised" when a stage raised
    ran,           \* history: per executed stage its name, the state it got and returned
    \* ---- response cache (_cache_get_json, _cache_set_json, _llm_json) ----
    now,           \* time.time(), in seconds
    ttl,           \* what _cache_ttl_seconds() returns at present
    dirent,        \* the cache directory: file name -> inode (0: no such file)
    inodes,        \* inode -> content, a pair of chunks
    thr,           \* per thread of the process: position and open file of its cache call
    ret,           \* outcome of the latest call
    memo,          \* the latest payload _llm_json took from the model and no later put replaced
    \* ---- fingerprints (_cache_key) ----
    reqs,          \* two requests (model, system prompt, user prompt)
    fps,           \* their fingerprints ("" until computed)
    \* ---- single calls of the functions without state ----
    callee,        \* the function that is called
    callArg,       \* its argument
    callRes        \* <<what it returned>>, empty before it returns

imgVars == <<imgLock, lastCallAge, sendAge, minSendGap, minStampGap, pc, attempt,
             timer, sent, result, endpoint>>

fanVars == <<beats, jobs, fut, merged, fanPc>>

\* What the steps of one part leave alone: the variables of the other parts.
pipeVars == <<state, node, ran>>

cacheVars == <<now, ttl, dirent, inodes, thr, ret, memo>>

keyVars == <<reqs, fps>>

callVars == <<callee, callArg, callRes>>

notImg == <<fanVars, pipeVars, cacheVars, keyVars, callVars>>
notFan == <<imgVars, pipeVars, cacheVars, keyVars, callVars>>
notPipe == <<imgVars, fanVars, cacheVars, keyVars, callVars>>
notCache == <<imgVars, fanVars, pipeVars, keyVars, callVars>>
notKey == <<imgVars, fanVars, pipeVars, cacheVars, callVars>>
notCall == <<imgVars, fanVars, pipeVars, cacheVars, keyVars>>

vars == <<imgVars, fanVars, pipeVars, cacheVars, keyVars, callVars>>

-----------------------------------------------------------------------------
(* Bounds of the model *)

NCallers == 2        \* concurrent callers of _generate_image
MaxBeats == 2        \* beats in a batch of the fan-out (the code allows 10)
MaxJobs == 4         \* image slots with a prompt in a batch (the code allows 30)
NKeys == 1           \* fingerprints with a cache file
MaxTime == 3         \* seconds the clock of the cache runs
TtlPositive == 2     \* the positive TTL of the model, in seconds (3600 in the example)

\* The longest system prompt and user prompt.
MaxPromptLen == 2

\* The longest list a preview is taken of.
MaxListLen == 7

\* The longest list of normalized concepts estimate_priority is called with.
MaxConcepts == 13

\* The longest story_cards list of a reply given to _normalize_story_cards.
MaxCards == 2

\* The beats of a reply given to generate_story_visuals, and the image steps
\* of one of its beats.
MaxRawBeats == 12
MaxRawSteps == 5

-----------------------------------------------------------------------------
(* Program constants, src/pipeline_graph.py:947-949 *)

_IMG_MIN_INTERVAL == 4
IMG_MAX_RETRIES_PLUS_ONE == 4 + 1     \* (faulty variant) one attempt too many
_IMG_MAX_RETRIES == 4
_IMG_BASE_BACKOFF == 5

\* _state_preview_value: the longest string and the longest list shown whole.
PreviewChars == 180
PreviewItems == 6

\* str.strip() on the strings of the model.
StripStr(t) ==
    CASE t = " Force " -> "Force"
      [] t = " force " -> "force"
      [] t = " Exam Night " -> "Exam Night"
      [] t \in {" ", "  "} -> ""
      [] OTHER -> t

Callers == 1..NCallers

Max(a, b) == IF a >= b THEN a ELSE b
Min(a, b) == IF a <= b THEN a ELSE b

RECURSIVE Pow2(_)
Pow2(n) == IF n = 0 THEN 1 ELSE 2 * Pow2(n - 1)

-----------------------------------------------------------------------------
(* The image endpoint's answers to one _http.post.                         *)

\* Line 1002: the status codes answered by a backoff and a retry.
TransientStatus == {429, 500, 502, 503}

\* An answer is named; the operators below give what the code reads from it.
Responses ==
    { "429", "500", "502", "503", "400", "401", "404",
      "exception",            \* _http.post raises (network failure, 90 s timeout)
      "200_image_jpeg",       \* inlineData with mimeType image/jpeg
      "200_image_nomime",     \* inlineData without mimeType
      "200_no_candidates",    \* {"candidates": []}
      "200_no_inline",        \* parts carry text only
      "200_bad_json",         \* resp.json() raises
      "200_bad_shape" }       \* candidates[0] is not an object: .get raises

status_code(r) ==
    CASE r = "429" -> 429 [] r = "500" -> 500 [] r = "502" -> 502
      [] r = "503" -> 503 [] r = "400" -> 400 [] r = "401" -> 401
      [] r = "404" -> 404 [] r = "exception" -> 0
      [] OTHER -> 200

\* What the body of the try block does with the answer r (lines 1001-1018):
\* "backoff_continue" (1002-1005), "continue" (1006-1007), "return_none"
\* (1010-1011, 1018), "return_image" (1013-1017), "except" (1019-1022).
TryOutcome(r) ==
    IF r = "exception" THEN "except"
    ELSE IF status_code(r) \in TransientStatus THEN "backoff_continue"
    ELSE IF status_code(r) # 200 THEN "continue"
    ELSE IF r \in {"200_bad_json", "200_bad_shape"} THEN "except"
    ELSE IF r = "200_no_candidates" THEN "return_none"
    ELSE IF r \in {"200_image_jpeg", "200_image_nomime"} THEN "return_image"
    ELSE "return_none"

\* f"data:{mime};base64,{inline['data']}" with mime defaulting to image/png.
ImageOf(r) ==
    IF r = "200_image_jpeg" THEN "data:image/jpeg;base64,AAAA"
    ELSE "data:image/png;base64,AAAA"

\* Answers the endpoint may give under each behaviour of a run.
EndpointModes == {"any", "always_transient"}

Allowed(mode) ==
    IF mode = "always_transient"
    THEN {"429", "500", "502", "503", "exception"}
    ELSE Responses

\* Configuration seen by lines 955-970.
Configs == {"ok", "no_api_key", "no_http", "no_image_model"}

-----------------------------------------------------------------------------
(* _generate_image, one action per step of a caller.                       *)

\* (faulty variant) the pacing wait is one second short.
PacingWaitShort(age) == _IMG_MIN_INTERVAL - age - 1

\* Line 996: wait = _IMG_MIN_INTERVAL - (now - _IMG_LAST_CALL), where age is
\* now - _IMG_LAST_CALL.
PacingWait(age) == _IMG_MIN_INTERVAL - age

\* (faulty variant) linear instead of exponential backoff.
BackoffLinear(k) == _IMG_BASE_BACKOFF * (k + 1)

\* Lines 1003 and 1021: _IMG_BASE_BACKOFF * (2 ** attempt).
Backoff(k) == _IMG_BASE_BACKOFF * Pow2(k)

\* Lines 955-970: configuration checks before the loop.
Begin(w, cfg) ==
    /\ pc[w] = "start"
    /\ IF cfg = "ok"
       THEN /\ pc' = [pc EXCEPT ![w] = "loop"]
            /\ result' = result
       ELSE /\ pc' = [pc EXCEPT ![w] = "done"]
            /\ result' = [result EXCEPT ![w] = "None"]
    /\ UNCHANGED <<imgLock, lastCallAge, sendAge, minSendGap, minStampGap, attempt,
                   timer, sent, endpoint>>
    /\ UNCHANGED notImg

\* Lines 993-998: enter the loop body, take the lock, compute the wait and
\* start sleeping it (still holding the lock).
Acquire(w) ==
    /\ pc[w] = "loop"
    /\ attempt[w] < _IMG_MAX_RETRIES
    /\ imgLock = 0
    /\ imgLock' = w
    /\ LET wait == PacingWait(lastCallAge)
       IN timer' = [timer EXCEPT ![w] = IF wait > 0 THEN wait ELSE 0]
    /\ pc' = [pc EXCEPT ![w] = "pacing"]
    /\ UNCHANGED <<lastCallAge, sendAge, minSendGap, minStampGap, attempt, sent,
                   result, endpoint>>
    /\ UNCHANGED notImg

\* (faulty variant) the timestamp is written without sleeping the wait.
StampWithoutSleep(w) ==
    /\ pc[w] = "pacing"
    /\ imgLock = w
    /\ minStampGap' = Min(minStampGap, lastCallAge)
    /\ lastCallAge' = 0
    /\ imgLock' = 0
    /\ pc' = [pc EXCEPT ![w] = "post"]
    /\ timer' = [timer EXCEPT ![w] = 0]
    /\ UNCHANGED <<sendAge, minSendGap, attempt, sent, result, endpoint>>
    /\ UNCHANGED notImg

\* (faulty variant) the with block is not left after the timestamp: the
\* request is sent with the lock held.
StampHoldingLock(w) ==
    /\ pc[w] = "pacing"
    /\ imgLock = w
    /\ timer[w] = 0
    /\ minStampGap' = Min(minStampGap, lastCallAge)
    /\ lastCallAge' = 0
    /\ pc' = [pc EXCEPT ![w] = "post"]
    /\ UNCHANGED <<imgLock, sendAge, minSendGap, attempt, timer, sent, result, endpoint>>
    /\ UNCHANGED notImg

\* Line 999 and the end of the with block: write the timestamp, release.
Stamp(w) ==
    /\ pc[w] = "pacing"
    /\ imgLock = w
    /\ timer[w] = 0
    /\ minStampGap' = Min(minStampGap, lastCallAge)
    /\ lastCallAge' = 0
    /\ imgLock' = 0
    /\ pc' = [pc EXCEPT ![w] = "post"]
    /\ UNCHANGED <<sendAge, minSendGap, attempt, timer, sent, result, endpoint>>
    /\ UNCHANGED notImg

\* Line 1001: the request leaves for the endpoint.
Post(w) ==
    /\ pc[w] = "post"
    /\ sent' = [sent EXCEPT ![w] = @ + 1]
    /\ minSendGap' = IF sendAge = -1 THEN minSendGap ELSE Min(minSendGap, sendAge)
    /\ sendAge' = 0
    /\ pc' = [pc EXCEPT ![w] = "flight"]
    /\ UNCHANGED <<imgLock, lastCallAge, minStampGap, attempt, timer, result,
                   endpoint>>
    /\ UNCHANGED notImg

\* The loop's `continue`: next attempt, or line 1023 when the range is used up.
Continue(w) ==
    /\ attempt' = [attempt EXCEPT ![w] = @ + 1]
    /\ IF attempt[w] + 1 < _IMG_MAX_RETRIES
       THEN /\ pc' = [pc EXCEPT ![w] = "loop"]
            /\ result' = result
       ELSE /\ pc' = [pc EXCEPT ![w] = "done"]
            /\ result' = [result EXCEPT ![w] = "None"]

\* Lines 1001-1022: the answer r arrives and the try block handles it.
Respond(w, r) ==
    /\ pc[w] = "flight"
    /\ r \in Allowed(endpoint)
    /\ LET o == TryOutcome(r) IN
       CASE o = "backoff_continue" ->
              /\ timer' = [timer EXCEPT ![w] = Backoff(attempt[w])]
              /\ pc' = [pc EXCEPT ![w] = "backoff"]
              /\ UNCHANGED <<attempt, result>>
         [] o = "continue" ->
              /\ Continue(w)
              /\ UNCHANGED timer
         [] o = "except" ->
              IF attempt[w] < _IMG_MAX_RETRIES - 1
              THEN /\ timer' = [timer EXCEPT ![w] = Backoff(attempt[w])]
                   /\ pc' = [pc EXCEPT ![w] = "backoff"]
                   /\ UNCHANGED <<attempt, result>>
              ELSE /\ Continue(w)
                   /\ UNCHANGED timer
         [] o = "return_image" ->
              /\ pc' = [pc EXCEPT ![w] = "done"]
              /\ result' = [result EXCEPT ![w] = ImageOf(r)]
              /\ UNCHANGED <<attempt, timer>>
         [] OTHER ->
              /\ pc' = [pc EXCEPT ![w] = "done"]
              /\ result' = [result EXCEPT ![w] = "None"]
              /\ UNCHANGED <<attempt, timer>>
    /\ UNCHANGED <<imgLock, lastCallAge, sendAge, minSendGap, minStampGap, sent,
                   endpoint>>
    /\ UNCHANGED notImg

\* The backoff time.sleep (lines 1004, 1021) is over: `continue`.
Wake(w) ==
    /\ pc[w] = "backoff"
    /\ timer[w] = 0
    /\ Continue(w)
    /\ UNCHANGED <<imgLock, lastCallAge, sendAge, minSendGap, minStampGap, timer,
                   sent, endpoint>>
    /\ UNCHANGED notImg

\* One second passes: every running sleep has one second less to go, the
\* monotonic clock moves away from the stored timestamp and the last request.
Tick ==
    /\ \E w \in Callers : pc[w] \notin {"done", "idle"}
    /\ timer' = [w \in Callers |-> IF timer[w] > 0 THEN timer[w] - 1 ELSE 0]
    /\ lastCallAge' = Min(lastCallAge + 1, _IMG_MIN_INTERVAL)
    /\ sendAge' = IF sendAge = -1 THEN -1 ELSE Min(sendAge + 1, _IMG_MIN_INTERVAL)
    /\ UNCHANGED <<imgLock, minSendGap, minStampGap, pc, attempt, sent, result,
                   endpoint>>
    /\ UNCHANGED notImg

ImgStep(w) ==
    \/ \E cfg \in Configs : Begin(w, cfg)
    \/ Acquire(w)
    \/ Stamp(w)
    \/ Post(w)
    \/ \E r \in Responses : Respond(w, r)
    \/ Wake(w)

NextImg == Tick \/ \E w \in Callers : ImgStep(w)

\* The empty dict {}.
EmptyDict == <<>>

\* Lines 1159-1175: the state run_pipeline starts the graph with.
initial_state(raw_files, extracted_text) ==
    [raw_files |-> raw_files,
     extracted_text |-> extracted_text,
     cleaned_text |-> <<>>,
     chunks |-> <<>>,
     concepts |-> <<>>,
     normalized_concepts |-> <<>>,
     priority_concepts |-> <<>>,
     scenario_seed |-> EmptyDict,
     learning_event |-> EmptyDict,
     todo_checklist |-> <<>>,
     interactive_story |-> EmptyDict,
     final_storytelling |-> <<>>,
     story_beats |-> <<>>,
     llm_used |-> FALSE,
     llm_status |-> ""]

\* No pipeline run (specifications of the other parts).
PipeIdle ==
    /\ state = initial_state(<<>>, <<>>)
    /\ node = "idle"
    /\ ran = <<>>

\* The fan-out part at rest (specifications of the other parts).
FanIdle ==
    /\ beats = <<>>
    /\ jobs = <<>>
    /\ fut = <<>>
    /\ merged = 0
    /\ fanPc = "idle"

\* Fingerprints, and the files of the cache directory: <key>.json and the
\* temporary <key>.json.tmp-<pid>, one per key since all threads of the
\* process have the same pid (line 161).
Keys == 1..NKeys

PathOf(k) == <<"json", k>>

TmpOf(k) == <<"tmp", k>>

Names == {PathOf(k) : k \in Keys} \cup {TmpOf(k) : k \in Keys}

Inodes == 1..3

\* The threads of the process that write the cache concurrently.
Writers == 1..2

\* A file holds two chunks, written one after the other (json.dump writes
\* through a buffer that is flushed whenever it is full).  The first chunk
\* carries cached_at and the first half of the data, the second the rest.
Hole == [at |-> -1, d |-> "hole"]

EmptyFile == <<Hole, Hole>>

NoCall == [op |-> "none", value |-> "None", status |-> "", requested |-> FALSE,
           raised |-> FALSE]

NoMemo == [key |-> 0, payload |-> "None", at |-> -1]

\* The cache at rest (specifications of the other parts).
CacheIdle ==
    /\ now = 0
    /\ ttl = TtlPositive
    /\ dirent = [n \in Names |-> 0]
    /\ inodes = [i \in Inodes |-> EmptyFile]
    /\ thr = [w \in Writers |-> [pc |-> "idle", fd |-> 0, d |-> "none"]]
    /\ ret = NoCall
    /\ memo = NoMemo

\* No fingerprint is being computed (specifications of the other parts).
KeyIdle ==
    /\ reqs = <<>>
    /\ fps = <<>>

\* No function is being called.
CallIdle ==
    /\ callee = "none"
    /\ callArg = <<>>
    /\ callRes = <<>>

\* N concurrent callers (the pool's workers), any endpoint behaviour; the
\* process may have started less than _IMG_MIN_INTERVAL seconds ago.
InitImg ==
    /\ imgLock = 0
    /\ lastCallAge \in 0.._IMG_MIN_INTERVAL
    /\ sendAge = -1
    /\ minSendGap = _IMG_MIN_INTERVAL
    /\ minStampGap = _IMG_MIN_INTERVAL
    /\ pc = [w \in Callers |-> "start"]
    /\ attempt = [w \in Callers |-> 0]
    /\ timer = [w \in Callers |-> 0]
    /\ sent = [w \in Callers |-> 0]
    /\ result = [w \in Callers |-> "pending"]
    /\ endpoint \in EndpointModes
    /\ FanIdle
    /\ PipeIdle
    /\ CacheIdle
    /\ KeyIdle
    /\ CallIdle

SpecImg == InitImg /\ [][NextImg]_vars

\* One call of _generate_image on its own (the other callers never start).
\* The thread is scheduled, time passes, and every request is answered or
\* ends in the 90 s timeout of line 1001: weak fairness of each step.
InitRetry ==
    /\ imgLock = 0
    /\ lastCallAge \in 0.._IMG_MIN_INTERVAL
    /\ sendAge = -1
    /\ minSendGap = _IMG_MIN_INTERVAL
    /\ minStampGap = _IMG_MIN_INTERVAL
    /\ pc = [w \in Callers |-> IF w = 1 THEN "start" ELSE "idle"]
    /\ attempt = [w \in Callers |-> 0]
    /\ timer = [w \in Callers |-> 0]
    /\ sent = [w \in Callers |-> 0]
    /\ result = [w \in Callers |-> "pending"]
    /\ endpoint \in EndpointModes
    /\ FanIdle
    /\ PipeIdle
    /\ CacheIdle
    /\ KeyIdle
    /\ CallIdle

SpecRetry ==
    /\ InitRetry
    /\ [][NextImg]_vars
    /\ WF_vars(Tick)
    /\ \A w \in Callers : WF_vars(ImgStep(w))

-----------------------------------------------------------------------------
(* generate_story_visuals: beats, jobs and the worker pool                  *)

\* Program constants of generate_story_visuals.
BeatsKept == 10       \* beats_raw[:10]
StepsPerBeat == 3     \* raw_steps[:3] and the padding loop
\* (faulty variant) a pool with one worker more.
max_workers_plus_one == 3 + 1
max_workers == 3      \* ThreadPoolExecutor(max_workers=3)

\* The prompt text the model gave for slot (bi, si) of a batch.
PromptText(bi, si) == "diagram " \o ToString(bi) \o "." \o ToString(si)

EmptyStep == [step_label |-> "", prompt |-> "", image_data |-> ""]

\* Lines 1082-1091: the first 3 raw steps, stripped, padded to exactly 3.
BuildSteps(raw_steps) ==
    [i \in 1..StepsPerBeat |->
        IF i <= Len(raw_steps)
        THEN [step_label |-> StripStr(raw_steps[i].step_label),
              prompt |-> StripStr(raw_steps[i].prompt),
              image_data |-> ""]
        ELSE EmptyStep]

\* (faulty variant) every beat of the reply is kept.
BuildBeatsAll(beats_raw) ==
    [b \in 1..Len(beats_raw) |->
        [label |-> StripStr(beats_raw[b].label),
         narrative |-> StripStr(beats_raw[b].narrative),
         is_decision |-> beats_raw[b].is_decision,
         choices |-> <<>>,
         image_steps |-> BuildSteps(beats_raw[b].image_steps)]]

\* Lines 1080-1098: at most 10 beats, each with exactly 3 image steps.
BuildBeats(beats_raw) ==
    [b \in 1..Min(Len(beats_raw), BeatsKept) |->
        [label |-> StripStr(beats_raw[b].label),
         narrative |-> StripStr(beats_raw[b].narrative),
         is_decision |-> beats_raw[b].is_decision,
         choices |-> SelectSeq([c \in 1..Len(beats_raw[b].choices) |->
                                  StripStr(beats_raw[b].choices[c])],
                               LAMBDA c : c # ""),
         image_steps |-> BuildSteps(beats_raw[b].image_steps)]]

\* Slots of a batch, 0-based as in the code, in the order of the two loops of
\* lines 1111-1112.
SlotAt(n) == <<n \div StepsPerBeat, n % StepsPerBeat>>

RECURSIVE JobsFromEverySlot(_, _)
\* (faulty variant) a job for every slot, with or without a prompt.
JobsFromEverySlot(bs, n) ==
    IF n >= Len(bs) * StepsPerBeat THEN <<>>
    ELSE <<<<SlotAt(n)[1], SlotAt(n)[2],
             bs[SlotAt(n)[1] + 1].image_steps[SlotAt(n)[2] + 1].prompt>>>>
         \o JobsFromEverySlot(bs, n + 1)

RECURSIVE JobsFrom(_, _)
\* Lines 1110-1114: one job (bi, si, prompt) per slot with a prompt.
JobsFrom(bs, n) ==
    IF n >= Len(bs) * StepsPerBeat THEN <<>>
    ELSE LET bi == SlotAt(n)[1]
             si == SlotAt(n)[2]
             p == bs[bi + 1].image_steps[si + 1].prompt
         IN (IF p # "" THEN <<<<bi, si, p>>>> ELSE <<>>) \o JobsFrom(bs, n + 1)

\* The image the endpoint draws for a prompt, as _generate_image returns it.
ImageFor(prompt) == "data:image/png;base64,<" \o prompt \o ">"

\* What one job can end in: _generate_image returned an image or None, or the
\* worker raised.
JobOutcomes == {"image", "None", "raise"}

\* Lines 1100-1108: the tuple a job returns.
gen_step_image(beat_idx, step_idx, prompt_text, outcome) ==
    [bi |-> beat_idx, si |-> step_idx,
     img |-> IF prompt_text = "" THEN "None"
             ELSE IF outcome = "image" THEN ImageFor(prompt_text)
             ELSE "None"]

\* (faulty variant) the slot is taken from the order in which futures complete.
ResultSlotByArrival(j) == <<jobs[merged + 1][1], jobs[merged + 1][2]>>

\* Lines 1119-1121: the slot a finished future's result is written to.
ResultSlot(j) == <<fut[j].res.bi, fut[j].res.si>>

\* (faulty variant) the merge loop without its try/except.
FutureExceptionEscapes == FALSE

\* Lines 1118, 1122-1123: an exception of future.result() is caught and dropped.
FutureExceptionCaught == TRUE

SetImage(bs, bi, si, img) ==
    [bs EXCEPT ![bi + 1].image_steps[si + 1].image_data = img]

Running == {j \in 1..Len(jobs) : fut[j].st = "running"}

\* Lines 1110-1116: build the job list and submit every job to the pool.
SubmitJobs ==
    /\ fanPc = "build"
    /\ jobs' = JobsFrom(beats, 0)
    /\ fut' = [j \in 1..Len(jobs') |->
                 [st |-> "queued", out |-> "pending",
                  res |-> [bi |-> -1, si |-> -1, img |-> "None"]]]
    /\ fanPc' = "collect"
    /\ UNCHANGED <<beats, merged>>
    /\ UNCHANGED notFan

\* A free worker of the pool takes the oldest queued job.  The workers are
\* threads of their own: they run wherever the submitting thread is.
StartJob(j) ==
    /\ fanPc \in {"collect", "returned"}
    /\ j \in 1..Len(jobs)
    /\ fut[j].st = "queued"
    /\ \A i \in 1..(j - 1) : fut[i].st # "queued"
    /\ Cardinality(Running) < max_workers
    /\ fut' = [fut EXCEPT ![j].st = "running"]
    /\ UNCHANGED <<beats, jobs, merged, fanPc>>
    /\ UNCHANGED notFan

\* The job's _gen_step_image call ends with outcome o.
FinishJob(j, o) ==
    /\ fanPc \in {"collect", "returned"}
    /\ j \in 1..Len(jobs)
    /\ fut[j].st = "running"
    /\ fut' = [fut EXCEPT ![j] =
                 [st |-> "finished", out |-> o,
                  res |-> IF o = "raise" THEN @.res
                          ELSE gen_step_image(jobs[j][1], jobs[j][2], jobs[j][3], o)]]
    /\ UNCHANGED <<beats, jobs, merged, fanPc>>
    /\ UNCHANGED notFan

\* Lines 1117-1123: as_completed yields a finished future; its result is merged.
Merge(j) ==
    /\ fanPc = "collect"
    /\ j \in 1..Len(jobs)
    /\ fut[j].st = "finished"
    /\ IF fut[j].out = "raise"
       THEN /\ beats' = beats
            /\ fanPc' = IF FutureExceptionCaught THEN fanPc ELSE "raised"
       ELSE /\ beats' = IF fut[j].res.img # "None"
                        THEN SetImage(beats, ResultSlot(j)[1], ResultSlot(j)[2],
                                      fut[j].res.img)
                        ELSE beats
            /\ fanPc' = fanPc
    /\ fut' = [fut EXCEPT ![j].st = "merged"]
    /\ merged' = merged + 1
    /\ UNCHANGED jobs
    /\ UNCHANGED notFan

\* (faulty variant) the return does not wait for the futures.
ReturnBeatsEarly ==
    /\ fanPc = "collect"
    /\ fanPc' = "returned"
    /\ UNCHANGED <<beats, jobs, fut, merged>>
    /\ UNCHANGED notFan

\* Lines 1117-1124: as_completed has yielded every future and the with block
\* has shut the pool down (wait=True): return.
ReturnBeats ==
    /\ fanPc = "collect"
    /\ merged = Len(jobs)
    /\ fanPc' = "returned"
    /\ UNCHANGED <<beats, jobs, fut, merged>>
    /\ UNCHANGED notFan

NextFan ==
    \/ SubmitJobs
    \/ \E j \in 1..MaxJobs : StartJob(j)
    \/ \E j \in 1..MaxJobs : \E o \in JobOutcomes : FinishJob(j, o)
    \/ \E j \in 1..MaxJobs : Merge(j)
    \/ ReturnBeats

\* The batches of the model: up to MaxBeats beats whose three steps each carry
\* a prompt or none, with at most MaxJobs prompts in all.
RawStep(bi, si, has) ==
    [step_label |-> "Step " \o ToString(si + 1),
     prompt |-> IF has THEN PromptText(bi, si) ELSE ""]

RawBatch(n, has) ==
    [b \in 1..n |->
        [label |-> "concept " \o ToString(b - 1), narrative |-> "you",
         is_decision |-> FALSE, choices |-> <<>>,
         image_steps |-> [i \in 1..StepsPerBeat |-> RawStep(b - 1, i - 1, has[b][i])]]]

RawBatches ==
    UNION { { RawBatch(n, has) :
                has \in { h \in [1..n -> [1..StepsPerBeat -> BOOLEAN]] :
                            Cardinality({x \in (1..n) \X (1..StepsPerBeat) :
                                            h[x[1]][x[2]]}) <= MaxJobs } } :
            n \in 0..MaxBeats }

\* The image client at rest (specifications of the other parts).
ImgIdle ==
    /\ imgLock = 0
    /\ lastCallAge = _IMG_MIN_INTERVAL
    /\ sendAge = -1
    /\ minSendGap = _IMG_MIN_INTERVAL
    /\ minStampGap = _IMG_MIN_INTERVAL
    /\ pc = [w \in Callers |-> "idle"]
    /\ attempt = [w \in Callers |-> 0]
    /\ timer = [w \in Callers |-> 0]
    /\ sent = [w \in Callers |-> 0]
    /\ result = [w \in Callers |-> "pending"]
    /\ endpoint = "any"

InitFan ==
    /\ \E raw \in RawBatches : beats = BuildBeats(raw)
    /\ jobs = <<>>
    /\ fut = <<>>
    /\ merged = 0
    /\ fanPc = "build"
    /\ ImgIdle
    /\ PipeIdle
    /\ CacheIdle
    /\ KeyIdle
    /\ CallIdle

SpecFan == InitFan /\ [][NextFan]_vars

-----------------------------------------------------------------------------
(* Texts of the pipeline.  A text is a sequence of fragments (strings): the   *)
(* words of a document with Newline between its lines, or the pieces a        *)
(* formatted string is built from.                                            *)

Newline == "<nl>"

Take(s, n) == SubSeq(s, 1, Min(n, Len(s)))

RECURSIVE Flatten(_)
Flatten(ss) == IF ss = <<>> THEN <<>> ELSE Head(ss) \o Flatten(Tail(ss))

RECURSIVE JoinWith(_, _)
\* sep.join(parts)
JoinWith(sep, parts) ==
    IF parts = <<>> THEN <<>>
    ELSE IF Len(parts) = 1 THEN parts[1]
    ELSE parts[1] \o sep \o JoinWith(sep, Tail(parts))

\* Stands for a sentence of 346 characters (see FragLen), for chunk_text's max_len.
LongSentence == "@LONG@"

\* str.lower() on the strings of the model.
Lower(t) ==
    CASE t = "Force" -> "force"
      [] t = " Force " -> " force "
      [] t = "The" -> "the"
      [] t = "Page" -> "page"
      [] t = " Exam Night " -> " exam night "
      [] t = "Exam Night" -> "exam night"
      [] t = "Units of force" -> "units of force"
      [] t = "LastMinute Mission: " -> "lastminute mission: "
      [] OTHER -> t

LowerText(t) == [i \in 1..Len(t) |-> Lower(t[i])]

RECURSIVE LStripText(_)
LStripText(t) ==
    IF t # <<>> /\ Head(t) \in {Newline, " "} THEN LStripText(Tail(t)) ELSE t

RECURSIVE RStripText(_)
RStripText(t) ==
    IF t # <<>> /\ t[Len(t)] \in {Newline, " "}
    THEN RStripText(SubSeq(t, 1, Len(t) - 1)) ELSE t

\* str.strip() on a text.
StripText(t) == RStripText(LStripText(t))

-----------------------------------------------------------------------------
(* agents/preprocessing/text_normalizer.py                                   *)

RECURSIVE SplitLines(_)
\* text.split("\n")
SplitLines(t) ==
    IF \A i \in 1..Len(t) : t[i] # Newline THEN <<t>>
    ELSE LET i == CHOOSE k \in 1..Len(t) :
                      t[k] = Newline /\ \A m \in 1..(k - 1) : t[m] # Newline
         IN <<SubSeq(t, 1, i - 1)>> \o SplitLines(SubSeq(t, i + 1, Len(t)))

\* _PAGE_PATTERNS on the lines of the model: "7", "Page 1", "3/10".
is_page_artifact(line) == line \in {<<"7">>, <<"Page", "1">>, <<"3/10">>}

\* A line ending in one of . ! ? ; :
ends_with_sentence_punctuation(line) ==
    line # <<>> /\ line[Len(line)] \in {"mass.", "text.", "law:", LongSentence}

\* next_line[:1].islower()
StartsLower(line) ==
    line # <<>> /\ line[1] \notin {"Force", "The", "Page", "7", "1", "3/10"}

\* current.endswith("-"): the hyphenated word is glued to the next line.
EndsHyphen(line) == line # <<>> /\ line[Len(line)] = "accel-"

Glue(a, b) == IF a = "accel-" /\ b = "eration" THEN "acceleration" ELSE a \o b

RECURSIVE Absorb(_, _)
\* Lines 45-58: the inner loop that merges the following lines into `current`.
Absorb(current, rest) ==
    IF rest = <<>> THEN <<current, rest>>
    ELSE LET next_line == Head(rest) IN
         IF \/ next_line = <<>>
            \/ ends_with_sentence_punctuation(current)
            \/ ~StartsLower(next_line)
         THEN <<current, rest>>
         ELSE IF EndsHyphen(current)
         THEN Absorb(SubSeq(current, 1, Len(current) - 1)
                        \o <<Glue(current[Len(current)], next_line[1])>>
                        \o Tail(next_line), Tail(rest))
         ELSE Absorb(current \o next_line, Tail(rest))

RECURSIVE MergeLines(_)
\* Lines 36-61.
MergeLines(lines) ==
    IF lines = <<>> THEN <<>>
    ELSE IF Head(lines) = <<>> THEN MergeLines(Tail(lines))
    ELSE LET a == Absorb(Head(lines), Tail(lines))
         IN <<a[1]>> \o MergeLines(a[2])

normalize_text(raw_text) ==
    LET text == StripText(raw_text) IN
    IF text = <<>> THEN <<>>
    ELSE LET lines == SelectSeq(SplitLines(text), LAMBDA line : ~is_page_artifact(line))
             merged_lines == MergeLines(lines)
         IN LowerText(StripText(JoinWith(<<Newline>>, merged_lines)))

-----------------------------------------------------------------------------
(* The stages of the pipeline, src/pipeline_graph.py                         *)

Fields ==
    {"raw_files", "extracted_text", "cleaned_text", "chunks", "concepts",
     "normalized_concepts", "priority_concepts", "scenario_seed",
     "learning_event", "todo_checklist", "interactive_story",
     "final_storytelling", "story_beats", "llm_used", "llm_status"}

store_raw_files(st) ==
    [st EXCEPT !.raw_files = [i \in 1..Len(@) |-> "stored::" \o @[i]]]

DummyLines(files) ==
    [i \in 1..Len(files) |-> <<"dummy", "extracted", "text", "from", files[i]>>]

extract_text(st) ==
    LET existing_text == StripText(st.extracted_text) IN
    IF existing_text # <<>>
    THEN [st EXCEPT !.extracted_text = existing_text]
    ELSE LET combined == JoinWith(<<Newline>>, DummyLines(st.raw_files))
         IN [st EXCEPT !.extracted_text =
                IF combined = <<>> THEN <<"dummy", "extracted", "text.">>
                ELSE combined]

clean_text(st) == [st EXCEPT !.cleaned_text = normalize_text(st.extracted_text)]

\* len() of a fragment, and of a text whose words are separated by one blank.
FragLen(f) == IF f = LongSentence THEN 346 ELSE IF f = Newline THEN 1 ELSE Len(f)

RECURSIVE TextLen(_)
TextLen(t) ==
    IF t = <<>> THEN 0
    ELSE FragLen(Head(t)) + TextLen(Tail(t))
         + (IF Len(t) >= 2 /\ t[1] # Newline /\ t[2] # Newline THEN 1 ELSE 0)

\* A fragment ending in . ! or ? (the lookbehind of the split pattern).
EndsSentence(f) == f \in {"mass.", "text.", LongSentence}

RECURSIVE SplitSentences(_, _)
\* re.split(r"(?<=[.!?])\s+", text), each piece stripped, empty pieces dropped.
SplitSentences(t, cur) ==
    IF t = <<>> THEN (IF StripText(cur) = <<>> THEN <<>> ELSE <<StripText(cur)>>)
    ELSE IF EndsSentence(Head(t)) /\ Len(t) >= 2
    THEN <<StripText(cur \o <<Head(t)>>)>> \o SplitSentences(LStripText(Tail(t)), <<>>)
    ELSE SplitSentences(Tail(t), cur \o <<Head(t)>>)

max_len == 350

RECURSIVE Pack(_, _)
\* Lines 264-274: greedy packing of sentences into chunks of at most max_len.
Pack(sentences, current) ==
    IF sentences = <<>> THEN (IF current # <<>> THEN <<current>> ELSE <<>>)
    ELSE LET sentence == Head(sentences)
             candidate == IF current = <<>> THEN sentence ELSE current \o sentence
         IN IF TextLen(candidate) <= max_len
            THEN Pack(Tail(sentences), candidate)
            ELSE (IF current # <<>> THEN <<current>> ELSE <<>>)
                    \o Pack(Tail(sentences), sentence)

chunk_text(st) ==
    LET text == st.cleaned_text IN
    IF text = <<>> THEN [st EXCEPT !.chunks = <<>>]
    ELSE [st EXCEPT !.chunks = Pack(SplitSentences(text, <<>>), <<>>)]

-----------------------------------------------------------------------------
(* _llm_json as the stages see it: the reply of one call, by name.           *)

LlmReplies ==
    { "no_client",        \* _llm_client() gave None: ({}, "missing ...")
      "request_failed",   \* generate_content raised: ({}, "gemini request failed")
      "empty_reply",      \* response.text empty: "{}" parses to {}
      "object",           \* a JSON object of the shape the prompt asks for
      "cached_object",    \* the same object served by _cache_get_json
      "odd_object",       \* a JSON object whose fields have unexpected types
      "json_list",        \* the reply parses to a non-empty JSON list
      "json_null" }       \* the reply parses to null (None)

\* The Python type of llm_result (lines 198-224, with _parse_json 180-194).
ReplyType(reply) ==
    IF reply = "json_list" THEN "list"
    ELSE IF reply = "json_null" THEN "NoneType"
    ELSE "dict"

\* bool(llm_result)
ReplyTruthy(reply) == reply \in {"object", "cached_object", "odd_object", "json_list"}

\* The status _llm_json returns with it.
ReplyStatus(reply) ==
    IF reply = "no_client" THEN "missing GEMINI_API_KEY/GOOGLE_API_KEY"
    ELSE IF reply = "request_failed" THEN "gemini request failed"
    ELSE "ok"

\* llm_result.get(...) raises AttributeError unless llm_result is a dict.
GetRaises(reply) == ReplyType(reply) # "dict"

-----------------------------------------------------------------------------
(* concept_extraction .. select_scenario_seed                                *)

\* llm_result.get("concepts", []) of the reply.
ConceptsField(reply) ==
    IF reply \in {"object", "cached_object"}
    THEN [is_list |-> TRUE, items |-> <<" Force ", "mass", "force", " ">>]
    ELSE IF reply = "odd_object"
    THEN [is_list |-> FALSE, items |-> <<>>]
    ELSE [is_list |-> TRUE, items |-> <<>>]

\* [str(c).strip() for c in items if str(c).strip()]
CleanStrings(items) ==
    SelectSeq([i \in 1..Len(items) |-> StripStr(items[i])], LAMBDA c : c # "")

\* re.findall(r"\b[a-z][a-z0-9]{2,}\b", ...) on one fragment of a cleaned text.
WordsOf(f) ==
    CASE f = Newline -> <<>>
      [] f = "mass." -> <<"mass">>
      [] f = "text." -> <<"text">>
      [] f = "law:" -> <<"law">>
      [] f = "stored::a.pdf" -> <<"stored", "pdf">>
      [] f = "stored::b.md" -> <<"stored">>
      [] OTHER -> <<f>>

stopwords ==
    {"the", "and", "for", "with", "from", "that", "this", "are", "was", "were",
     "have", "has", "not", "you", "your", "into", "about", "can", "will", "they",
     "their", "then", "than", "also", "but", "all"}

CountOf(w, ws) == Cardinality({i \in 1..Len(ws) : ws[i] = w})

RECURSIVE FirstSeen(_, _)
\* The distinct elements of a sequence, in first-seen order.
FirstSeen(ws, seen) ==
    IF ws = <<>> THEN <<>>
    ELSE IF Head(ws) \in seen THEN FirstSeen(Tail(ws), seen)
    ELSE <<Head(ws)>> \o FirstSeen(Tail(ws), seen \cup {Head(ws)})

RECURSIVE MostCommon(_, _, _)
\* Counter(ws).most_common(n): by count, ties in first-seen order.
MostCommon(cands, ws, n) ==
    IF n = 0 \/ cands = <<>> THEN <<>>
    ELSE LET best == CHOOSE i \in 1..Len(cands) :
                        \A j \in 1..Len(cands) :
                            \/ CountOf(cands[j], ws) < CountOf(cands[i], ws)
                            \/ CountOf(cands[j], ws) = CountOf(cands[i], ws) /\ j >= i
             rest == [k \in 1..(Len(cands) - 1) |->
                        IF k < best THEN cands[k] ELSE cands[k + 1]]
         IN <<cands[best]>> \o MostCommon(rest, ws, n - 1)

concept_extraction(st, reply) ==
    LET text == st.cleaned_text
        llm_concepts == ConceptsField(reply)
        cleaned_llm == [i \in 1..Len(CleanStrings(llm_concepts.items)) |->
                           Lower(CleanStrings(llm_concepts.items)[i])]
        words == Flatten([i \in 1..Len(text) |-> WordsOf(text[i])])
        filtered == SelectSeq(words, LAMBDA w : w \notin stopwords)
        top == MostCommon(FirstSeen(filtered, {}), filtered, 12)
    IN IF llm_concepts.is_list /\ cleaned_llm # <<>>
       THEN [st EXCEPT !.concepts = cleaned_llm, !.llm_used = TRUE, !.llm_status = "ok"]
       ELSE [st EXCEPT !.concepts = IF top = <<>>
                                    THEN <<"core-topic", "key-idea", "review-focus">>
                                    ELSE top,
                       !.llm_status = ReplyStatus(reply)]

RECURSIVE DedupeNormalized(_, _)
\* Lines 356-362.
DedupeNormalized(cs, seen) ==
    IF cs = <<>> THEN <<>>
    ELSE LET value == Lower(StripStr(Head(cs))) IN
         IF value # "" /\ value \notin seen
         THEN <<value>> \o DedupeNormalized(Tail(cs), seen \cup {value})
         ELSE DedupeNormalized(Tail(cs), seen)

\* (faulty variant) the deduplicated list also replaces `concepts`.
normalize_concepts_in_place(st) ==
    [st EXCEPT !.normalized_concepts = DedupeNormalized(st.concepts, {}),
               !.concepts = DedupeNormalized(st.concepts, {})]

normalize_concepts(st) ==
    [st EXCEPT !.normalized_concepts = DedupeNormalized(st.concepts, {})]

\* (faulty variant) the share is rounded down.
estimate_priority_floor(st) ==
    LET normalized == st.normalized_concepts IN
    IF normalized = <<>> THEN [st EXCEPT !.priority_concepts = <<>>]
    ELSE LET coverage_target == Max(1, Min(10, (Len(normalized) * 85) \div 100))
         IN [st EXCEPT !.priority_concepts = Take(normalized, coverage_target)]

estimate_priority(st) ==
    LET normalized == st.normalized_concepts IN
    IF normalized = <<>> THEN [st EXCEPT !.priority_concepts = <<>>]
    ELSE LET coverage_target == Max(1, Min(10, (Len(normalized) * 85 + 99) \div 100))
         IN [st EXCEPT !.priority_concepts = Take(normalized, coverage_target)]

select_scenario_seed(st) ==
    LET priority == st.priority_concepts IN
    [st EXCEPT !.scenario_seed =
        [focus |-> IF priority # <<>> THEN priority[1] ELSE "general review",
         secondary |-> IF priority # <<>> THEN Tail(priority) ELSE <<>>,
         mode |-> "deterministic-placeholder"]]

-----------------------------------------------------------------------------
(* generate_learning_event and its helpers.  A formatted string is a text    *)
(* whose fragments are its literal pieces and the values put between them.   *)

RECURSIVE CharLen(_)
\* len() of a formatted string.
CharLen(t) == IF t = <<>> THEN 0 ELSE Len(Head(t)) + CharLen(Tail(t))

\* Words (\S+) in a concept string of the model.
WordCount(c) == IF c \in {"general review", "core concept"} THEN 2 ELSE 1

RECURSIVE LabelWords(_)
\* Words in " + ".join(topics).
LabelWords(topics) ==
    IF topics = <<>> THEN 0
    ELSE WordCount(Head(topics)) + LabelWords(Tail(topics))
         + (IF Len(topics) >= 2 THEN 1 ELSE 0)

importance_for_rank(index, total) ==
    IF total <= 1 THEN "high"
    ELSE IF 10 * (index + 1) <= 3 * total THEN "high"
    ELSE IF 10 * (index + 1) <= 7 * total THEN "medium"
    ELSE "low"

RECURSIVE pair_topics(_)
pair_topics(concepts) ==
    IF concepts = <<>> THEN <<>>
    ELSE IF Len(concepts) = 1 THEN <<concepts>>
    ELSE <<Take(concepts, 2)>> \o pair_topics(SubSeq(concepts, 3, Len(concepts)))

story_min_words(importance) ==
    IF importance = "high" THEN 620
    ELSE IF importance = "medium" THEN 520
    ELSE 450

PaddingWords == 56

RECURSIVE ensure_min_words(_, _, _)
\* A story is [template, topics, words, padding]: `words` is its word count,
\* `padding` the number of paragraphs the loop of lines 479-485 appended.
ensure_min_words(text, min_words, topic_label) ==
    IF text.words >= min_words THEN text
    ELSE ensure_min_words(
             [text EXCEPT !.words = @ + PaddingWords + LabelWords(topic_label),
                          !.padding = @ + 1],
             min_words, topic_label)

BaseStoryWords == 278

\* base_story of lines 521-535: `first` occurs 4 times in it, `second` 3 times.
BaseStory(first, second) ==
    [template |-> "base_story", topics |-> <<first, second>>,
     words |-> BaseStoryWords + 4 * (WordCount(first) - 1) + 3 * (WordCount(second) - 1),
     padding |-> 0]

Importances == {"high", "medium", "low"}

\* Lines 516-551, for the cleaned topics and the checked importance.
FallbackCardOf(clean_topics, importance) ==
    LET first == clean_topics[1]
        second == IF Len(clean_topics) > 1 THEN clean_topics[2] ELSE clean_topics[1]
    IN [title |-> <<first, " and ", second, ": last-minute exam sync">>,
        topics |-> Take(clean_topics, 2),
        importance |-> importance,
        subtopics |-> << <<first, " core idea">>, <<second, " core idea">>,
                         <<first, " <-> ", second, " exam linkage">> >>,
        story |-> ensure_min_words(BaseStory(first, second),
                                   story_min_words(importance), clean_topics),
        friend_explainers |->
            << <<"How would you explain ", first,
                 " to a friend in 30 seconds with one example?">>,
               <<"If a question mixes ", first, " and ", second,
                 ", what clue tells you which idea to apply first?">>,
               <<"What is the most common mistake here, and how will you avoid it in the exam?">> >>]

\* Lines 509-514, then the card.
fallback_story_card(topics, importance) ==
    FallbackCardOf(IF CleanStrings(topics) = <<>>
                   THEN <<"core concept">>
                   ELSE CleanStrings(topics),
                   IF importance \notin Importances THEN "medium" ELSE importance)

\* `a in b` on the lower-cased topic strings of the model.
IsSubstring(a, b) ==
    \/ a = b
    \/ <<a, b>> \in {<<"force", "net force">>, <<"mass", "mass and weight">>}

\* Lines 451-468: the first concept of the exact pass, else of the substring
\* pass, else "".
MatchCandidate(candidate, concepts, used) ==
    LET exact == {i \in 1..Len(concepts) :
                     Lower(concepts[i]) = candidate /\ Lower(concepts[i]) \notin used}
        loose == {i \in 1..Len(concepts) :
                     /\ Lower(concepts[i]) \notin used
                     /\ \/ IsSubstring(candidate, Lower(concepts[i]))
                        \/ IsSubstring(Lower(concepts[i]), candidate)}
    IN IF candidate = "" THEN ""
       ELSE IF exact # {} THEN concepts[CHOOSE i \in exact : \A j \in exact : i <= j]
       ELSE IF loose # {} THEN concepts[CHOOSE i \in loose : \A j \in loose : i <= j]
       ELSE ""

match_topic_to_concept(raw_topic, concepts, used) ==
    MatchCandidate(Lower(StripStr(raw_topic)), concepts, used)

RECURSIVE MapTopics(_, _, _)
\* Lines 577-583.
MapTopics(raw_topics, concept_list, used_local) ==
    IF raw_topics = <<>> THEN <<>>
    ELSE LET match == match_topic_to_concept(Head(raw_topics), concept_list, used_local) IN
         IF match # ""
         THEN <<match>> \o MapTopics(Tail(raw_topics), concept_list,
                                     used_local \cup {Lower(match)})
         ELSE MapTopics(Tail(raw_topics), concept_list, used_local)

\* tuple(sorted(topic.lower() for topic in pair)), up to the order sorting fixes.
PairKey(topics) == [n |-> Len(topics), s |-> {Lower(topics[i]) : i \in 1..Len(topics)}]

\* pair_lookup[key]: a later pair with the same key replaces an earlier one.
PairLookup(pairs, key) ==
    pairs[CHOOSE i \in 1..Len(pairs) :
              PairKey(pairs[i]) = key /\ \A j \in (i + 1)..Len(pairs) : PairKey(pairs[j]) # key]

\* [str(s).strip() for s in items if str(s).strip()]
StripTexts(items) ==
    SelectSeq([i \in 1..Len(items) |-> StripText(items[i])], LAMBDA t : t # <<>>)

\* value or default
OrElse(value, default) == IF value # <<>> THEN value ELSE default

\* A raw card of the model's reply:
\* [is_dict, topics_type ("list" | "str" | "other"), topics, importance,
\*  title, subtopics, story_words, friend_explainers].
\* Lines 601-632: the card built from an accepted raw card and its fallback.
CardOver(raw, pair, importance, fallback) ==
    [title |-> OrElse(StripText(raw.title), fallback.title),
     topics |-> pair,
     importance |-> importance,
     subtopics |-> OrElse(StripTexts(raw.subtopics), fallback.subtopics),
     story |-> ensure_min_words(
                   IF raw.story_words = 0 THEN fallback.story
                   ELSE [template |-> "llm_story", topics |-> pair,
                         words |-> raw.story_words, padding |-> 0],
                   story_min_words(importance), pair),
     friend_explainers |-> OrElse(StripTexts(raw.friend_explainers),
                                  fallback.friend_explainers)]

\* Lines 594-599.
CardFromRaw(raw, idx, mapped_topics, pairs) ==
    LET pair == PairLookup(pairs, PairKey(mapped_topics))
        importance == IF Lower(StripStr(raw.importance)) \in Importances
                      THEN Lower(StripStr(raw.importance))
                      ELSE importance_for_rank(idx, Max(Len(pairs), 1))
    IN CardOver(raw, pair, importance, fallback_story_card(pair, importance))

RECURSIVE NormalizeLoop(_, _, _, _, _)
RECURSIVE NormalizeCard(_, _, _, _, _, _)
\* Lines 567-585: raw cards from index idx (0-based) on.
NormalizeLoop(llm_cards, idx, concept_list, pairs, used_pairs) ==
    IF idx >= Len(llm_cards) THEN <<>>
    ELSE NormalizeCard(llm_cards, idx, concept_list, pairs, used_pairs,
                       Take(MapTopics(IF llm_cards[idx + 1].topics_type = "other" THEN <<>>
                                      ELSE llm_cards[idx + 1].topics,
                                      concept_list, {}), 2))

\* Lines 568-632: the `continue`s, or the card.
NormalizeCard(llm_cards, idx, concept_list, pairs, used_pairs, mapped_topics) ==
    IF \/ ~llm_cards[idx + 1].is_dict
       \/ llm_cards[idx + 1].topics_type = "other"
       \/ mapped_topics = <<>>
       \/ \A i \in 1..Len(pairs) : PairKey(pairs[i]) # PairKey(mapped_topics)
       \/ PairKey(mapped_topics) \in used_pairs
    THEN NormalizeLoop(llm_cards, idx + 1, concept_list, pairs, used_pairs)
    ELSE <<CardFromRaw(llm_cards[idx + 1], idx, mapped_topics, pairs)>>
         \o NormalizeLoop(llm_cards, idx + 1, concept_list, pairs,
                          used_pairs \cup {PairKey(mapped_topics)})

\* (faulty variant) the accepted cards are returned as they are.
CompleteCardsModelOnly(normalized_cards, pairs) == normalized_cards

\* Lines 634-651; in cards_by_key a later card replaces an earlier one.
CompleteCards(normalized_cards, pairs) ==
    [i \in 1..Len(pairs) |->
        IF \E k \in 1..Len(normalized_cards) :
              PairKey(normalized_cards[k].topics) = PairKey(pairs[i])
        THEN normalized_cards[CHOOSE k \in 1..Len(normalized_cards) :
                 /\ PairKey(normalized_cards[k].topics) = PairKey(pairs[i])
                 /\ \A m \in (k + 1)..Len(normalized_cards) :
                        PairKey(normalized_cards[m].topics) # PairKey(pairs[i])]
        ELSE fallback_story_card(pairs[i], importance_for_rank(i - 1, Max(Len(pairs), 1)))]

\* llm_cards is [is_list, items].
normalize_story_cards(llm_cards, concepts, pairs) ==
    CompleteCards(NormalizeLoop(IF llm_cards.is_list THEN llm_cards.items ELSE <<>>, 0,
                                CleanStrings(concepts), pairs, {}),
                  pairs)

\* " + ".join(topics)
TopicLabel(topics) ==
    JoinWith(<<" + ">>, [i \in 1..Len(topics) |-> <<topics[i]>>])

\* Lines 657-671.
CardItems(card) ==
    LET clean_topics == CleanStrings(card.topics)
        topic_label == TopicLabel(clean_topics)
        subs == StripTexts(Take(card.subtopics, 2))
    IN IF clean_topics = <<>> THEN <<>>
       ELSE [i \in 1..Len(subs) |->
                topic_label \o <<": revise ">> \o subs[i] \o <<" with one worked example.">>]
            \o <<topic_label \o <<": explain the pair out loud in exam-ready language.">>>>

story_cards_to_checklist(story_cards) ==
    Flatten([i \in 1..Len(story_cards) |-> CardItems(story_cards[i])])

\* re.sub(r"^\s*[-*\d\).\]]+\s*", "", item).strip()
Unbullet(item) ==
    StripText(IF item # <<>> /\ Head(item) \in {"- ", "* ", "1. ", "2) "}
              THEN Tail(item) ELSE item)

RECURSIVE DedupeItems(_, _, _)
\* Lines 413-421 and 439-444: append the items not yet seen (by lower-cased
\* text), skipping those shorter than min_len.
DedupeItems(items, seen, min_len) ==
    IF items = <<>> THEN <<>>
    ELSE IF CharLen(Head(items)) < min_len \/ LowerText(Head(items)) \in seen
    THEN DedupeItems(Tail(items), seen, min_len)
    ELSE <<Head(items)>>
         \o DedupeItems(Tail(items), seen \cup {LowerText(Head(items))}, min_len)

\* Lines 423-446, for the items the first loop kept.
ChecklistFrom(cleaned, focus, concepts, secondary, max_items) ==
    LET pool == CleanStrings(concepts)
        concept_pool == IF pool # <<>> THEN pool
                        ELSE <<IF StripStr(focus) # "" THEN StripStr(focus) ELSE "core topic">>
        fallback ==
            [i \in 1..Len(concept_pool) |->
                <<concept_pool[i], ": explain it clearly, then solve one exam-style question.">>]
            \o << <<focus, ": write a 5-line summary from memory.">> >>
            \o (IF secondary # <<>>
                THEN << <<focus, " + ", secondary[1], ": connect them in one worked example.">> >>
                ELSE <<>>)
    IN IF Len(cleaned) >= 4 THEN Take(cleaned, max_items)
       ELSE Take(cleaned \o DedupeItems(fallback,
                                        {LowerText(cleaned[i]) : i \in 1..Len(cleaned)}, 0),
                 max_items)

normalized_subtopic_checklist(focus, concepts, secondary, llm_items, max_items) ==
    ChecklistFrom(DedupeItems([i \in 1..Len(llm_items) |-> Unbullet(llm_items[i])], {}, 4),
                  focus, concepts, secondary, max_items)

\* Lines 690-694.
ImportanceLabel(importance) ==
    CASE importance = "high" -> "High Priority"
      [] importance = "medium" -> "Medium Priority"
      [] importance = "low" -> "Low Priority"
      [] OTHER -> "Priority"

\* "\n".join(f"- {item}" ...) or default
Bulleted(items, default) ==
    IF items = <<>> THEN <<default>>
    ELSE JoinWith(<<Newline>>, [i \in 1..Len(items) |-> <<"- ">> \o items[i]])

\* Lines 684-715: one block of the composed text.  A story contributes its
\* template's name and, for base_story, the topics it is written about.
StoryBlock(idx, card) ==
    LET topics == CleanStrings(card.topics)
        topic_label == IF topics = <<>> THEN <<"core concepts">> ELSE TopicLabel(topics)
    IN <<"Story Card ", ToString(idx + 1), ": ">>
       \o OrElse(StripText(card.title), topic_label \o <<" story card">>) \o <<Newline>>
       \o <<"Topics: ">> \o topic_label
       \o <<" (", ImportanceLabel(Lower(StripStr(card.importance))), ")", Newline>>
       \o <<"Subtopics:", Newline>> \o Bulleted(StripTexts(card.subtopics), "- quick review")
       \o <<Newline, Newline, "Story:", Newline, "@" \o card.story.template \o "@">>
       \o (IF card.story.template = "base_story" THEN card.story.topics ELSE <<>>)
       \o <<Newline, Newline, "Friend-style explainers:", Newline>>
       \o Bulleted(StripTexts(card.friend_explainers), "- explain this topic pair to a friend.")

compose_story_text(title, opening, checkpoint, boss_level, story_cards, checklist) ==
    title \o <<Newline, Newline, "Act 1 - Mission Brief:", Newline>> \o opening
    \o <<Newline, Newline, "Act 2 - Story Cards:", Newline, Newline>>
    \o JoinWith(<<Newline, Newline>>,
                [i \in 1..Len(story_cards) |-> StoryBlock(i - 1, story_cards[i])])
    \o <<Newline, Newline, "Act 3 - Checkpoint:", Newline>> \o checkpoint
    \o <<Newline, Newline, "Final Boss:", Newline>> \o boss_level
    \o <<Newline, Newline, "Mission Checklist:", Newline, "- ">>
    \o (IF checklist # <<>> THEN JoinWith(<<Newline, "- ">>, checklist)
        ELSE <<"No checklist generated.">>)

\* A raw card that is a JSON object.
RawCard(topics_type, topics, importance, title, subtopics, story_words, friend) ==
    [is_dict |-> TRUE, topics_type |-> topics_type, topics |-> topics,
     importance |-> importance, title |-> title, subtopics |-> subtopics,
     story_words |-> story_words, friend_explainers |-> friend]

\* The cards the model returns for generate_learning_event's prompt: a card
\* for the first pair with its topics in the other order and most fields
\* missing, a non-object, a card about an unknown topic, a repeat of the first
\* card, and a complete card for the second pair if there is one.
EventCards(pairs) ==
    << RawCard("list", [i \in 1..Len(pairs[1]) |-> pairs[1][Len(pairs[1]) + 1 - i]],
               "", <<>>, << <<" ">>, <<"units">> >>, 3, <<>>),
       [RawCard("other", <<>>, "", <<>>, <<>>, 0, <<>>) EXCEPT !.is_dict = FALSE],
       RawCard("str", <<"astrology">>, "high", <<"Stars">>, <<>>, 700, <<>>),
       RawCard("list", pairs[1], "low", <<"Again">>, <<>>, 700, <<>>) >>
    \o (IF Len(pairs) >= 2
        THEN <<RawCard("list", pairs[2], "low", <<" ", "Second", "act">>,
                       << <<"worked example">> >>, 700, << <<"Why?">> >>)>>
        ELSE <<>>)

\* llm_result as generate_learning_event reads it, field by field; a field
\* that is absent or of the wrong type has has_title/is_list FALSE.
EventPayload(reply, pairs) ==
    IF reply \in {"object", "cached_object"}
    THEN [has_title |-> TRUE, title |-> <<" ", "Exam Night", " ">>,
          storytelling |-> <<"recap">>,
          story_cards |-> [is_list |-> TRUE, items |-> EventCards(pairs)],
          subtopics |-> [is_list |-> TRUE,
                         items |-> << <<"1. ", "units of force">>, <<" ">>, <<"- ", "ok">> >>],
          checklist |-> [is_list |-> TRUE,
                         items |-> << <<"Units of force">>, <<"draw a free-body diagram">> >>],
          opening |-> <<>>, checkpoint |-> <<"Checkpoint one.">>, boss_level |-> <<>>]
    ELSE [has_title |-> FALSE, title |-> <<>>, storytelling |-> <<>>,
          story_cards |-> [is_list |-> FALSE, items |-> <<>>],
          subtopics |-> [is_list |-> FALSE, items |-> <<>>],
          checklist |-> [is_list |-> FALSE, items |-> <<>>],
          opening |-> <<>>, checkpoint |-> <<>>, boss_level |-> <<>>]

RECURSIVE DedupeCap(_, _, _)
\* Lines 738-747 and 750-757: the first `room` distinct concepts.
DedupeCap(cs, seen, room) ==
    IF cs = <<>> \/ room = 0 THEN <<>>
    ELSE IF Lower(Head(cs)) = "" \/ Lower(Head(cs)) \in seen
    THEN DedupeCap(Tail(cs), seen, room)
    ELSE <<Head(cs)>> \o DedupeCap(Tail(cs), seen \cup {Lower(Head(cs))}, room - 1)

\* Lines 759-763, for the concepts of lines 738-757 and the seed's focus.
InputsWith(all_concepts, picked, seed_focus) ==
    LET focus == IF seed_focus # "" THEN seed_focus
                 ELSE IF picked # <<>> THEN picked[1] ELSE "general review"
        concepts == IF picked = <<>> THEN <<focus>> ELSE picked
    IN [all_concepts |-> all_concepts,
        concepts |-> concepts,
        focus |-> focus,
        secondary |-> SelectSeq(concepts, LAMBDA c : Lower(c) # Lower(focus)),
        topic_pairs |-> pair_topics(concepts)]

\* Lines 732-763: what both paths of generate_learning_event start from.
EventInputs(st) ==
    LET all_concepts == CleanStrings(st.normalized_concepts)
        prioritized == CleanStrings(st.priority_concepts)
        deduped == DedupeCap(IF prioritized = <<>> THEN Take(all_concepts, 10)
                             ELSE prioritized, {}, 10)
    IN InputsWith(all_concepts,
                  IF deduped = <<>> /\ all_concepts # <<>>
                  THEN DedupeCap(all_concepts, {}, 10) ELSE deduped,
                  IF st.scenario_seed = EmptyDict THEN ""
                  ELSE StripStr(st.scenario_seed.focus))

\* Lines 864-883 and 914-932: the event and the returned state.
\* coverage_ratio is round(a / b, 3) in thousandths.
EventState(st, in, story, checklist, story_text, from_model, llm_status) ==
    [st EXCEPT
        !.learning_event =
            [title |-> IF from_model THEN LowerText(story.title)
                       ELSE <<"mission: ", in.focus>>,
             format |-> IF from_model THEN "interactive-story-pack" ELSE "guided-story-pack",
             tasks |-> checklist, subtopics |-> checklist,
             concepts |-> in.concepts, topic_storylines |-> story.topic_storylines,
             interactive_story |-> story, final_storytelling |-> story_text,
             coverage_ratio |-> (2000 * Len(in.concepts) + Max(Len(in.all_concepts), 1))
                                \div (2 * Max(Len(in.all_concepts), 1))],
        !.todo_checklist = checklist,
        !.interactive_story = story,
        !.final_storytelling = story_text,
        !.llm_used = IF from_model THEN TRUE ELSE @,
        !.llm_status = IF from_model THEN "ok"
                       ELSE IF llm_status # "" THEN llm_status ELSE @]

\* Lines 851-863 and 905-912: the composed text; the defaults of lines
\* 853-855 apply to the model's story only, the fallback story has no empty part.
EventText(st, in, story, checklist, storytelling_summary, from_model, llm_status) ==
    EventState(st, in, story, checklist,
        (IF storytelling_summary # <<>>
         THEN storytelling_summary \o <<Newline, Newline>> ELSE <<>>)
        \o compose_story_text(
               story.title,
               OrElse(story.opening, <<"Your revision starts with ", in.focus, ".">>),
               OrElse(story.checkpoint, <<"Solve one timed prompt per topic before moving on.">>),
               OrElse(story.boss_level,
                      <<"Teach all priority topics in plain language without notes.">>),
               story.topic_storylines, checklist),
        from_model, llm_status)

\* Lines 835-843 and 889-896: the checklist.
EventChecklist(st, in, story, llm_items, storytelling_summary, from_model, llm_status) ==
    EventText(st, in, story,
              normalized_subtopic_checklist(
                  in.focus, in.concepts, in.secondary,
                  llm_items \o story_cards_to_checklist(story.topic_storylines),
                  Max(1, Len(in.concepts))),
              storytelling_summary, from_model, llm_status)

\* Lines 819-883: the path taken when llm_result is truthy.
EventFromModel(st, in, llm_result) ==
    EventChecklist(st, in,
        [title |-> IF llm_result.has_title THEN StripText(llm_result.title)
                   ELSE <<"LastMinute Mission: ", in.focus>>,
         opening |-> StripText(llm_result.opening),
         checkpoint |-> StripText(llm_result.checkpoint),
         boss_level |-> StripText(llm_result.boss_level),
         topic_storylines |-> normalize_story_cards(llm_result.story_cards, in.concepts,
                                                    in.topic_pairs)],
        (IF llm_result.subtopics.is_list THEN StripTexts(llm_result.subtopics.items) ELSE <<>>)
        \o (IF llm_result.checklist.is_list THEN StripTexts(llm_result.checklist.items)
            ELSE <<>>),
        StripText(llm_result.storytelling), TRUE, "ok")

\* Lines 885-932: the deterministic path.
EventFallback(st, in, llm_status) ==
    EventChecklist(st, in,
        [title |-> <<"LastMinute Mission: ", in.focus>>,
         opening |-> <<"You are 24 hours from the exam. Your mission starts with ",
                       in.focus, ".">>,
         checkpoint |-> <<"Unlock each checkpoint by explaining each story card to a friend in your own words.">>,
         boss_level |-> <<"Teach the concept back in plain language without notes.">>,
         topic_storylines |->
             [i \in 1..Len(in.topic_pairs) |->
                 fallback_story_card(in.topic_pairs[i],
                                     importance_for_rank(i - 1, Max(Len(in.topic_pairs), 1)))]],
        <<>>, <<>>, FALSE, llm_status)

\* Line 819.
EventOf(st, in, reply) ==
    IF ReplyTruthy(reply) THEN EventFromModel(st, in, EventPayload(reply, in.topic_pairs))
    ELSE EventFallback(st, in, ReplyStatus(reply))

generate_learning_event(st, reply) == EventOf(st, EventInputs(st), reply)

-----------------------------------------------------------------------------
(* generate_story_visuals as a stage of the pipeline                         *)

\* The beats the model returns for the stage's prompt: a beat with two steps
\* (the second with a blank prompt) and a beat with four steps.
ObjectBeats ==
    << [label |-> " ", narrative |-> "you", is_decision |-> FALSE, choices |-> <<" ", "a">>,
        image_steps |-> << [step_label |-> "Step 1", prompt |-> PromptText(0, 0)],
                           [step_label |-> "Step 2", prompt |-> " "] >>],
       [label |-> "concept 1", narrative |-> "you", is_decision |-> TRUE, choices |-> <<>>,
        image_steps |-> << [step_label |-> "Step 1", prompt |-> PromptText(1, 0)],
                           [step_label |-> "Step 2", prompt |-> ""],
                           [step_label |-> "Step 3", prompt |-> PromptText(1, 2)],
                           [step_label |-> "Step 4", prompt |-> PromptText(1, 3)] >>] >>

\* result.get("beats", []) of the reply.
BeatsField(reply) ==
    IF reply \in {"object", "cached_object"}
    THEN [is_list |-> TRUE, items |-> ObjectBeats, elements_are_dicts |-> TRUE]
    ELSE IF reply = "odd_object"
    THEN [is_list |-> TRUE, items |-> <<1>>, elements_are_dicts |-> FALSE]
    ELSE [is_list |-> TRUE, items |-> <<>>, elements_are_dicts |-> TRUE]

\* Line 1076 raises on a reply that is no dict, line 1082 on a beat that is none.
VisualsRaise(st, reply) ==
    /\ st.final_storytelling # <<>>
    /\ \/ GetRaises(reply)
       \/ /\ BeatsField(reply).is_list
          /\ BeatsField(reply).items # <<>>
          /\ ~BeatsField(reply).elements_are_dicts

\* The jobs the stage submits for a reply.
StageJobs(st, reply) ==
    IF st.final_storytelling = <<>> \/ VisualsRaise(st, reply) THEN <<>>
    ELSE JobsFrom(BuildBeats(BeatsField(reply).items), 0)

RECURSIVE MergeResults(_, _, _, _)
\* Lines 1117-1123 over all futures; outs[k] is how job k ended.
MergeResults(bs, js, outs, k) ==
    IF k > Len(js) THEN bs
    ELSE LET res == gen_step_image(js[k][1], js[k][2], js[k][3], outs[k]) IN
         MergeResults(IF outs[k] # "raise" /\ res.img # "None"
                      THEN SetImage(bs, res.bi, res.si, res.img) ELSE bs,
                      js, outs, k + 1)

generate_story_visuals(st, reply, outs) ==
    IF st.final_storytelling = <<>> THEN [st EXCEPT !.story_beats = <<>>]
    ELSE LET beats_raw == BeatsField(reply) IN
         IF ~beats_raw.is_list \/ beats_raw.items = <<>>
         THEN [st EXCEPT !.story_beats = <<>>]
         ELSE [st EXCEPT !.story_beats =
                  MergeResults(BuildBeats(beats_raw.items), StageJobs(st, reply), outs, 1)]

-----------------------------------------------------------------------------
(* build_graph and run_pipeline                                              *)

\* Lines 1129-1138: the nodes, in the order they are declared.
StageOrder ==
    <<"store_raw_files", "extract_text", "clean_text", "chunk_text",
      "concept_extraction", "normalize_concepts", "estimate_priority",
      "select_scenario_seed", "generate_learning_event", "generate_story_visuals">>

\* Line 1140.
EntryPoint == "store_raw_files"

\* (faulty variant) the edge out of clean_text leads past chunk_text.
SuccessorSkipping(n) ==
    CASE n = "store_raw_files" -> "extract_text"
      [] n = "extract_text" -> "clean_text"
      [] n = "clean_text" -> "concept_extraction"
      [] n = "chunk_text" -> "concept_extraction"
      [] n = "concept_extraction" -> "normalize_concepts"
      [] n = "normalize_concepts" -> "estimate_priority"
      [] n = "estimate_priority" -> "select_scenario_seed"
      [] n = "select_scenario_seed" -> "generate_learning_event"
      [] n = "generate_learning_event" -> "generate_story_visuals"
      [] n = "generate_story_visuals" -> "END"

\* Lines 1141-1150: the edges.
Successor(n) ==
    CASE n = "store_raw_files" -> "extract_text"
      [] n = "extract_text" -> "clean_text"
      [] n = "clean_text" -> "chunk_text"
      [] n = "chunk_text" -> "concept_extraction"
      [] n = "concept_extraction" -> "normalize_concepts"
      [] n = "normalize_concepts" -> "estimate_priority"
      [] n = "estimate_priority" -> "select_scenario_seed"
      [] n = "select_scenario_seed" -> "generate_learning_event"
      [] n = "generate_learning_event" -> "generate_story_visuals"
      [] n = "generate_story_visuals" -> "END"

\* The graph writes the dict a node returns into its state, key by key.
ApplyUpdate(channels, update) ==
    [f \in Fields |-> IF f \in DOMAIN update THEN update[f] ELSE channels[f]]

\* Node n returns `out`: the graph takes it over and follows n's edge.
Leave(n, out) ==
    /\ state' = ApplyUpdate(state, out)
    /\ node' = Successor(n)
    /\ ran' = Append(ran, [node |-> n, received |-> state, returned |-> out])

\* Node n raises: the exception leaves invoke() and run_pipeline.
Raise(n) ==
    /\ node' = "raised"
    /\ UNCHANGED <<state, ran>>

StoreRawFilesNode ==
    /\ node = "store_raw_files"
    /\ Leave("store_raw_files", store_raw_files(state))
    /\ UNCHANGED notPipe

ExtractTextNode ==
    /\ node = "extract_text"
    /\ Leave("extract_text", extract_text(state))
    /\ UNCHANGED notPipe

CleanTextNode ==
    /\ node = "clean_text"
    /\ Leave("clean_text", clean_text(state))
    /\ UNCHANGED notPipe

ChunkTextNode ==
    /\ node = "chunk_text"
    /\ Leave("chunk_text", chunk_text(state))
    /\ UNCHANGED notPipe

ConceptExtractionNode ==
    /\ node = "concept_extraction"
    /\ \E reply \in LlmReplies :
          IF GetRaises(reply) THEN Raise("concept_extraction")
          ELSE Leave("concept_extraction", concept_extraction(state, reply))
    /\ UNCHANGED notPipe

NormalizeConceptsNode ==
    /\ node = "normalize_concepts"
    /\ Leave("normalize_concepts", normalize_concepts(state))
    /\ UNCHANGED notPipe

EstimatePriorityNode ==
    /\ node = "estimate_priority"
    /\ Leave("estimate_priority", estimate_priority(state))
    /\ UNCHANGED notPipe

SelectScenarioSeedNode ==
    /\ node = "select_scenario_seed"
    /\ Leave("select_scenario_seed", select_scenario_seed(state))
    /\ UNCHANGED notPipe

GenerateLearningEventNode ==
    /\ node = "generate_learning_event"
    /\ \E reply \in LlmReplies :
          IF ReplyTruthy(reply) /\ GetRaises(reply) THEN Raise("generate_learning_event")
          ELSE Leave("generate_learning_event", generate_learning_event(state, reply))
    /\ UNCHANGED notPipe

GenerateStoryVisualsNode ==
    /\ node = "generate_story_visuals"
    /\ \E reply \in LlmReplies :
          IF VisualsRaise(state, reply) THEN Raise("generate_story_visuals")
          ELSE \E outs \in [1..Len(StageJobs(state, reply)) -> JobOutcomes] :
                  Leave("generate_story_visuals", generate_story_visuals(state, reply, outs))
    /\ UNCHANGED notPipe

NextPipe ==
    \/ StoreRawFilesNode
    \/ ExtractTextNode
    \/ CleanTextNode
    \/ ChunkTextNode
    \/ ConceptExtractionNode
    \/ NormalizeConceptsNode
    \/ EstimatePriorityNode
    \/ SelectScenarioSeedNode
    \/ GenerateLearningEventNode
    \/ GenerateStoryVisualsNode

\* The uploads and the pre-extracted texts of the model.
FileLists == {<<>>, <<"a.pdf">>, <<"a.pdf", "b.md">>}

InputTexts ==
    { <<>>,
      <<Newline, " ">>,
      <<Newline, "7", Newline, "Force", "and", Newline, "mass.", Newline,
        "The", "accel-", Newline, "eration", Newline>>,
      <<"the", "and">>,
      <<LongSentence, "Force", "mass.", "the", "law:", Newline, "force">> }

InitPipe ==
    /\ \E raw_files \in FileLists : \E extracted_text \in InputTexts :
          state = initial_state(raw_files, extracted_text)
    /\ node = EntryPoint
    /\ ran = <<>>
    /\ ImgIdle
    /\ FanIdle
    /\ CacheIdle
    /\ KeyIdle
    /\ CallIdle

SpecPipe == InitPipe /\ [][NextPipe]_vars

-----------------------------------------------------------------------------
(* run_pipeline_with_trace.  PIPELINE_GRAPH.stream(..., stream_mode=         *)
(* "updates") runs the graph as above and hands over, after each node, the   *)
(* dict that node returned: the updates so far are the entries of `ran`.     *)
(* The local variables of the loop are functions of them.  (The second       *)
(* execution by invoke, line 1237, is one more run of the graph.)            *)

\* current_state.update(node_update)
DictUpdate(d, u) ==
    [k \in DOMAIN d \cup DOMAIN u |-> IF k \in DOMAIN u THEN u[k] ELSE d[k]]

RECURSIVE current_state(_)
\* Lines 1216 and 1225: current_state after the loop handled n updates.
current_state(n) ==
    IF n = 0 THEN ran[1].received
    ELSE DictUpdate(current_state(n - 1), ran[n].returned)

\* Lines 1226-1236: the event appended for the n-th update.  previewed is the
\* state whose fields state_preview shows through _state_preview_value.
TraceEvent(n) ==
    [node |-> ran[n].node,
     updated_fields |-> DOMAIN ran[n].returned,
     previewed |-> current_state(n)]

RECURSIVE EventsOfChanges(_)
\* (faulty variant) an update that changes nothing gets no event.
EventsOfChanges(n) ==
    IF n > Len(ran) THEN <<>>
    ELSE (IF ran[n].returned # ran[n].received THEN <<TraceEvent(n)>> ELSE <<>>)
             \o EventsOfChanges(n + 1)

TraceOfChanges == EventsOfChanges(1)

\* Lines 1217-1236: the list `trace` after the updates so far.
trace == [n \in 1..Len(ran) |-> TraceEvent(n)]

\* A call of run_pipeline_with_trace, lines 1216-1238.  The graph is run by
\* stream (line 1219) and then once more by invoke (line 1237); both runs
\* start from initial_state and take the steps of the pipeline above.  While
\* stream runs callee is "stream"; its loop has then built current_state and
\* trace, which callArg keeps (of an event its node and updated_fields).

\* The uploads and texts run_pipeline_with_trace is called with.
TraceInputTexts ==
    { <<>>,
      <<LongSentence, "Force", "mass.", "the", "law:", Newline, "force">> }

\* Line 1219: the stream is exhausted; line 1237: invoke starts the graph
\* again from initial_state.
StreamDone ==
    /\ callee = "stream"
    /\ node = "END"
    /\ callee' = "invoke"
    /\ callArg' = <<[current_state |-> current_state(Len(ran)),
                     trace |-> [n \in 1..Len(ran) |->
                                   [node |-> trace[n].node,
                                    updated_fields |-> trace[n].updated_fields]],
                     initial_state |-> ran[1].received]>>
    /\ state' = ran[1].received
    /\ node' = EntryPoint
    /\ ran' = <<>>
    /\ UNCHANGED callRes
    /\ UNCHANGED <<imgVars, fanVars, cacheVars, keyVars>>

\* Line 1238: return final_state, trace.
InvokeDone ==
    /\ callee = "invoke"
    /\ node = "END"
    /\ callee' = "returned"
    /\ callRes' = <<[final_state |-> state, trace |-> callArg[1].trace]>>
    /\ UNCHANGED callArg
    /\ UNCHANGED pipeVars
    /\ UNCHANGED <<imgVars, fanVars, cacheVars, keyVars>>

NextTrace ==
    \/ NextPipe
    \/ StreamDone
    \/ InvokeDone

InitTrace ==
    /\ \E extracted_text \in TraceInputTexts :
          state = initial_state(<<"a.pdf">>, extracted_text)
    /\ node = EntryPoint
    /\ ran = <<>>
    /\ callee = "stream"
    /\ callArg = <<>>
    /\ callRes = <<>>
    /\ ImgIdle
    /\ FanIdle
    /\ CacheIdle
    /\ KeyIdle

SpecTrace == InitTrace /\ [][NextTrace]_vars

-----------------------------------------------------------------------------
(* The response cache: _cache_ttl_seconds, _cache_get_json, _cache_set_json  *)
(* and _llm_json on top of them.                                             *)

\* Lines 109-120: 0, or a positive number of seconds.
TtlValues == {0, TtlPositive}

\* The values _cache_set_json is called with: a JSON object, another one, the
\* empty object, a JSON list (what _parse_json returns for a reply that is a
\* list, handed on by line 221), and an object with a string that UTF-8
\* cannot encode (a lone surrogate, which json.loads accepts as an escape).
Payloads == {"object", "object_b", "empty_object", "json_list", "unencodable_object"}

\* json.dump(payload, file, ensure_ascii=False) into a UTF-8 file succeeds.
Encodable(d) == d # "unencodable_object"

\* The file content of {"cached_at": at, "data": d}.
Entry(at, d) == <<[at |-> at, d |-> d], [at |-> -1, d |-> d]>>

\* Content that is no entry: not JSON at all, or JSON of another shape.
Damages == {"garbage", "top_list"}

\* json.load(file) raises: the text is incomplete or no JSON.
ParseFails(c) ==
    \/ c[1] = Hole
    \/ c[2] = Hole
    \/ c[1].d = "garbage"

\* payload.get raises: the document is no object.
ShapeFails(c) == c[1].d = "top_list"

\* payload.get("data", {}) of a parsed file; the halves of two objects of the
\* same layout parse as one object.
DataOf(c) == IF c[1].d = c[2].d THEN c[1].d ELSE c[1].d \o "+" \o c[2].d

\* isinstance(data, dict)
IsDictData(c) ==
    /\ c[1].d \in {"object", "object_b", "empty_object"}
    /\ c[2].d \in {"object", "object_b", "empty_object"}

\* What can go wrong in the file system during a call: nothing, os.getcwd()
\* raising (the working directory was removed), or the file operation failing
\* (permissions, disk full).
ReadFaults == {"none", "getcwd", "unreadable"}

WriteFaults == {"none", "getcwd", "io_error"}

Miss == [raised |-> FALSE, value |-> "None"]

\* Lines 137-152.  _cache_dir() is called at line 139, outside the try block.
_cache_get_json(cache_key, fault) ==
    IF fault = "getcwd" THEN [raised |-> TRUE, value |-> "None"]
    ELSE IF dirent[PathOf(cache_key)] = 0 THEN Miss
    ELSE IF fault = "unreadable" THEN Miss
    ELSE IF ParseFails(inodes[dirent[PathOf(cache_key)]]) THEN Miss
    ELSE IF ShapeFails(inodes[dirent[PathOf(cache_key)]]) THEN Miss
    ELSE IF ttl > 0 /\ now - inodes[dirent[PathOf(cache_key)]][1].at > ttl THEN Miss
    ELSE IF ~IsDictData(inodes[dirent[PathOf(cache_key)]]) THEN Miss
    ELSE [raised |-> FALSE, value |-> DataOf(inodes[dirent[PathOf(cache_key)]])]

\* Lines 155-177 as one step of a single caller: the directory and the files
\* after the call, and whether it raised.  _cache_dir() is called at line 159,
\* outside the try block.  The entry of key k is kept in inode k: with one
\* caller the temporary file and its rename cannot be observed.
_cache_set_json(cache_key, data, fault) ==
    IF ttl = 0 THEN [raised |-> FALSE, dirent |-> dirent, inodes |-> inodes]
    ELSE IF fault = "getcwd" THEN [raised |-> TRUE, dirent |-> dirent, inodes |-> inodes]
    ELSE IF fault = "io_error" \/ ~Encodable(data)
    THEN [raised |-> FALSE, dirent |-> dirent, inodes |-> inodes]
    ELSE [raised |-> FALSE,
          dirent |-> [dirent EXCEPT ![PathOf(cache_key)] = cache_key],
          inodes |-> [inodes EXCEPT ![cache_key] = Entry(now, data)]]

\* The outcome of a call, as the variable ret keeps it.
Outcome(op, value, status, requested, raised) ==
    [op |-> op, value |-> value, status |-> status, requested |-> requested,
     raised |-> raised]

\* A call of _cache_get_json.
CacheGetCall(k, fault) ==
    /\ ret' = Outcome("get", _cache_get_json(k, fault).value, "", FALSE,
                      _cache_get_json(k, fault).raised)
    /\ UNCHANGED <<now, ttl, dirent, inodes, thr, memo>>
    /\ UNCHANGED notCache

\* A call of _cache_set_json.
CacheSetCall(k, d, fault) ==
    /\ dirent' = _cache_set_json(k, d, fault).dirent
    /\ inodes' = _cache_set_json(k, d, fault).inodes
    /\ ret' = Outcome("set", "None", "", FALSE, _cache_set_json(k, d, fault).raised)
    /\ memo' = IF memo.key = k /\ _cache_set_json(k, d, fault).inodes # inodes
               THEN NoMemo ELSE memo
    /\ UNCHANGED <<now, ttl, thr>>
    /\ UNCHANGED notCache

\* The model's answers to one generate_content call.
ModelReplies ==
    {"request_failed", "empty_reply", "json_null", "object", "object_b", "json_list",
     "unencodable_object"}

\* _parse_json(response.text or "{}")
ParsedOf(reply) ==
    IF reply = "empty_reply" THEN "empty_object"
    ELSE IF reply = "json_null" THEN "None"
    ELSE reply

\* (faulty variant) the payload is stored whether it is empty or not.
TruthyAlways(parsed) == TRUE

\* bool(parsed)
Truthy(parsed) == parsed \notin {"empty_object", "None"}

\* Lines 207-224: the request was sent and answered.
LlmJsonAsk(k, reply, wfault) ==
    IF reply = "request_failed"
    THEN /\ ret' = Outcome("llm", "empty_object", "gemini request failed", TRUE, FALSE)
         /\ UNCHANGED <<dirent, inodes, memo>>
    ELSE IF Truthy(ParsedOf(reply)) /\ _cache_set_json(k, ParsedOf(reply), wfault).raised
    THEN /\ ret' = Outcome("llm", "empty_object", "gemini request failed", TRUE, FALSE)
         /\ UNCHANGED <<dirent, inodes, memo>>
    ELSE /\ ret' = Outcome("llm", ParsedOf(reply), "ok", TRUE, FALSE)
         /\ IF Truthy(ParsedOf(reply))
            THEN /\ dirent' = _cache_set_json(k, ParsedOf(reply), wfault).dirent
                 /\ inodes' = _cache_set_json(k, ParsedOf(reply), wfault).inodes
                 /\ memo' = IF ttl > 0
                            THEN [key |-> k, payload |-> ParsedOf(reply), at |-> now]
                            ELSE memo
            ELSE UNCHANGED <<dirent, inodes, memo>>

\* Lines 198-224: a call of _llm_json for the request with fingerprint k.
LlmJsonCall(k, client, reply, rfault, wfault) ==
    /\ IF _cache_get_json(k, rfault).raised
       THEN /\ ret' = Outcome("llm", "None", "", FALSE, TRUE)
            /\ UNCHANGED <<dirent, inodes, memo>>
       ELSE IF _cache_get_json(k, rfault).value # "None"
       THEN /\ ret' = Outcome("llm", _cache_get_json(k, rfault).value, "ok", FALSE, FALSE)
            /\ UNCHANGED <<dirent, inodes, memo>>
       ELSE IF client = "none"
       THEN /\ ret' = Outcome("llm", "empty_object",
                              "missing GEMINI_API_KEY/GOOGLE_API_KEY", FALSE, FALSE)
            /\ UNCHANGED <<dirent, inodes, memo>>
       ELSE LlmJsonAsk(k, reply, wfault)
    /\ UNCHANGED <<now, ttl, thr>>
    /\ UNCHANGED notCache

\* A second passes.
Advance ==
    /\ now < MaxTime
    /\ now' = now + 1
    /\ UNCHANGED <<ttl, dirent, inodes, thr, ret, memo>>
    /\ UNCHANGED notCache

\* LASTMINUTE_GEMINI_CACHE_TTL_SECONDS is changed between two calls.
SetTtl(t) ==
    /\ t # ttl
    /\ ttl' = t
    /\ UNCHANGED <<now, dirent, inodes, thr, ret, memo>>
    /\ UNCHANGED notCache

\* The file of key k is damaged from outside the program.
Damage(k, kind) ==
    /\ dirent[PathOf(k)] # 0
    /\ inodes' = [inodes EXCEPT ![dirent[PathOf(k)]] =
                     <<[at |-> -1, d |-> kind], [at |-> -1, d |-> kind]>>]
    /\ memo' = IF memo.key = k THEN NoMemo ELSE memo
    /\ UNCHANGED <<now, ttl, dirent, thr, ret>>
    /\ UNCHANGED notCache

Clients == {"ok", "none"}

\* One caller at a time, a file system that works.
NextCache ==
    \/ \E k \in Keys : CacheGetCall(k, "none")
    \/ \E k \in Keys : \E d \in Payloads : CacheSetCall(k, d, "none")
    \/ \E k \in Keys : \E client \in Clients : \E reply \in ModelReplies :
          LlmJsonCall(k, client, reply, "none", "none")
    \/ Advance
    \/ \E t \in TtlValues : SetTtl(t)

\* One caller at a time, a file system that may fail.
NextCacheFaults ==
    \/ \E k \in Keys : \E f \in ReadFaults : CacheGetCall(k, f)
    \/ \E k \in Keys : \E d \in Payloads : \E f \in WriteFaults : CacheSetCall(k, d, f)
    \/ \E k \in Keys : \E client \in Clients : \E reply \in ModelReplies :
          \E rf \in ReadFaults : \E wf \in WriteFaults : LlmJsonCall(k, client, reply, rf, wf)
    \/ Advance
    \/ \E t \in TtlValues : SetTtl(t)
    \/ \E k \in Keys : \E kind \in Damages : Damage(k, kind)

InitCache ==
    /\ now = 0
    /\ ttl \in TtlValues
    /\ dirent = [n \in Names |-> 0]
    /\ inodes = [i \in Inodes |-> EmptyFile]
    /\ thr = [w \in Writers |-> [pc |-> "idle", fd |-> 0, d |-> "none"]]
    /\ ret = NoCall
    /\ memo = NoMemo
    /\ ImgIdle
    /\ FanIdle
    /\ PipeIdle
    /\ KeyIdle
    /\ CallIdle

SpecCache == InitCache /\ [][NextCache]_vars

SpecCacheFaults == InitCache /\ [][NextCacheFaults]_vars

-----------------------------------------------------------------------------
(* _cache_set_json step by step: two threads of the process store a payload  *)
(* for the same fingerprint while a reader looks the fingerprint up.         *)

\* The fingerprint the two writers and the reader use.
RaceKey == CHOOSE k \in Keys : TRUE

\* The payloads of the two writers: two objects of the same layout and length.
PayloadOf(w) == IF w = 1 THEN "object" ELSE "object_b"

\* Lines 159-169: open(tmp_path, "w") creates the file, or truncates the one
\* that is there; the thread keeps writing to the file it opened.
WriterOpen(w) ==
    /\ thr[w].pc = "start"
    /\ ttl # 0
    /\ IF dirent[TmpOf(RaceKey)] = 0
       THEN /\ dirent' = [dirent EXCEPT ![TmpOf(RaceKey)] = w]
            /\ inodes' = [inodes EXCEPT ![w] = EmptyFile]
            /\ thr' = [thr EXCEPT ![w] = [pc |-> "opened", fd |-> w, d |-> PayloadOf(w)]]
       ELSE /\ dirent' = dirent
            /\ inodes' = [inodes EXCEPT ![dirent[TmpOf(RaceKey)]] = EmptyFile]
            /\ thr' = [thr EXCEPT ![w] = [pc |-> "opened", fd |-> dirent[TmpOf(RaceKey)],
                                         d |-> PayloadOf(w)]]
    /\ UNCHANGED <<now, ttl, ret, memo>>
    /\ UNCHANGED notCache

\* Line 170: the buffer is flushed for the first time.
WriterFlush(w) ==
    /\ thr[w].pc = "opened"
    /\ inodes' = [inodes EXCEPT ![thr[w].fd][1] = [at |-> now, d |-> thr[w].d]]
    /\ thr' = [thr EXCEPT ![w].pc = "half"]
    /\ UNCHANGED <<now, ttl, dirent, ret, memo>>
    /\ UNCHANGED notCache

\* Line 170 and the end of the with block: the rest is written, the file closed.
WriterClose(w) ==
    /\ thr[w].pc = "half"
    /\ inodes' = [inodes EXCEPT ![thr[w].fd][2] = [at |-> -1, d |-> thr[w].d]]
    /\ thr' = [thr EXCEPT ![w].pc = "written"]
    /\ UNCHANGED <<now, ttl, dirent, ret, memo>>
    /\ UNCHANGED notCache

\* Lines 171-177: os.replace(tmp_path, path); if the temporary file is gone
\* (the other thread renamed it) the error is swallowed.
WriterReplace(w) ==
    /\ thr[w].pc = "written"
    /\ dirent' = IF dirent[TmpOf(RaceKey)] # 0
                 THEN [dirent EXCEPT ![PathOf(RaceKey)] = dirent[TmpOf(RaceKey)],
                                     ![TmpOf(RaceKey)] = 0]
                 ELSE dirent
    /\ thr' = [thr EXCEPT ![w].pc = "done"]
    /\ UNCHANGED <<now, ttl, inodes, ret, memo>>
    /\ UNCHANGED notCache

\* A reader's _cache_get_json; it reads the file in one go.
ReaderGet == CacheGetCall(RaceKey, "none")

NextCacheRace ==
    \/ \E w \in Writers : WriterOpen(w)
    \/ \E w \in Writers : WriterFlush(w)
    \/ \E w \in Writers : WriterClose(w)
    \/ \E w \in Writers : WriterReplace(w)
    \/ ReaderGet

\* The fingerprint has no entry yet, or an older complete one.
InitCacheRace ==
    /\ now = 1
    /\ ttl = TtlPositive
    /\ \/ /\ dirent = [n \in Names |-> 0]
          /\ inodes = [i \in Inodes |-> EmptyFile]
       \/ /\ dirent = [n \in Names |-> IF n = PathOf(RaceKey) THEN 3 ELSE 0]
          /\ inodes = [i \in Inodes |-> IF i = 3 THEN Entry(0, "empty_object") ELSE EmptyFile]
    /\ thr = [w \in Writers |-> [pc |-> "start", fd |-> 0, d |-> "none"]]
    /\ ret = NoCall
    /\ memo = NoMemo
    /\ ImgIdle
    /\ FanIdle
    /\ PipeIdle
    /\ KeyIdle
    /\ CallIdle

SpecCacheRace == InitCacheRace /\ [][NextCacheRace]_vars

-----------------------------------------------------------------------------
(* A run of the pipeline without the model service: LASTMINUTE_GEMINI_CACHE_ *)
(* TTL_SECONDS is 0, every generate_content and every image request fails,   *)
(* and the cache directory holds what earlier runs left in it.  The reply    *)
(* of _llm_json is computed from the cache directory.                        *)

\* Lines 199-206 and 223-224 when no request can succeed: a stored entry that
\* _cache_get_json serves is returned with "ok"; otherwise the client is
\* missing or the request fails.  The fingerprint of the stage's request is
\* one of the stored ones or none of them.
OfflineReplies ==
    {"no_client", "request_failed"}
    \cup (IF \E k \in Keys : _cache_get_json(k, "none").value = "object"
          THEN {"cached_object"} ELSE {})

\* _generate_image without the endpoint: None after the retries, or the
\* worker raises.
OfflineJobOutcomes == JobOutcomes \ {"image"}

ConceptExtractionOffline ==
    /\ node = "concept_extraction"
    /\ \E reply \in OfflineReplies :
          Leave("concept_extraction", concept_extraction(state, reply))
    /\ UNCHANGED notPipe

GenerateLearningEventOffline ==
    /\ node = "generate_learning_event"
    /\ \E reply \in OfflineReplies :
          Leave("generate_learning_event", generate_learning_event(state, reply))
    /\ UNCHANGED notPipe

GenerateStoryVisualsOffline ==
    /\ node = "generate_story_visuals"
    /\ \E reply \in OfflineReplies :
          \E outs \in [1..Len(StageJobs(state, reply)) -> OfflineJobOutcomes] :
              Leave("generate_story_visuals", generate_story_visuals(state, reply, outs))
    /\ UNCHANGED notPipe

NextOffline ==
    \/ StoreRawFilesNode
    \/ ExtractTextNode
    \/ CleanTextNode
    \/ ChunkTextNode
    \/ ConceptExtractionOffline
    \/ NormalizeConceptsNode
    \/ EstimatePriorityNode
    \/ SelectScenarioSeedNode
    \/ GenerateLearningEventOffline
    \/ GenerateStoryVisualsOffline

\* The cache directory is empty, or holds entries an earlier run stored at
\* time 0 (with a positive TTL); the run starts later, with TTL 0.
InitOffline ==
    /\ \E raw_files \in FileLists : \E extracted_text \in InputTexts :
          state = initial_state(raw_files, extracted_text)
    /\ node = EntryPoint
    /\ ran = <<>>
    /\ now \in {0, MaxTime}
    /\ ttl = 0
    /\ \E stored \in SUBSET Keys :
          /\ dirent = [n \in Names |->
                          IF \E k \in stored : n = PathOf(k)
                          THEN CHOOSE k \in stored : n = PathOf(k) ELSE 0]
          /\ inodes = [i \in Inodes |->
                          IF i \in stored THEN Entry(0, "object") ELSE EmptyFile]
    /\ thr = [w \in Writers |-> [pc |-> "idle", fd |-> 0, d |-> "none"]]
    /\ ret = NoCall
    /\ memo = NoMemo
    /\ ImgIdle
    /\ FanIdle
    /\ KeyIdle
    /\ CallIdle

SpecOffline == InitOffline /\ [][NextOffline]_vars

-----------------------------------------------------------------------------
(* _cache_key: the fingerprint of a request.  Texts are sequences of         *)
(* characters.                                                               *)

Quote == "\""

Backslash == "\\"

\* The characters of the prompts: one that json.dumps writes as it is (the
\* comma) and the two that it escapes.
Chars == {",", Quote, Backslash}

Texts == UNION {[1..n -> Chars] : n \in 0..MaxPromptLen}

\* The values _llm_model() can have in two environments.
ModelIds == {<<"g">>, <<"f">>}

Requests == [model : ModelIds, system_prompt : Texts, user_prompt : Texts]

\* json.dumps of one character inside a string, ensure_ascii=False.
EscapeChar(c) ==
    IF c = Quote THEN <<Backslash, Quote>>
    ELSE IF c = Backslash THEN <<Backslash, Backslash>>
    ELSE <<c>>

RECURSIVE EscapeText(_)
EscapeText(s) == IF s = <<>> THEN <<>> ELSE EscapeChar(Head(s)) \o EscapeText(Tail(s))

\* The three strings written one after the other with nothing escaped (faulty
\* variant).
JsonDumpsUnescaped(model, system_prompt, user_prompt) ==
    <<Quote>> \o model \o <<Quote, ",", Quote>> \o system_prompt
        \o <<Quote, ",", Quote>> \o user_prompt \o <<Quote>>

\* Lines 124-133: json.dumps({...}, ensure_ascii=False, sort_keys=True).  The
\* keys come in the order model, provider, system_prompt, user_prompt; the text
\* between two values, which is the same for every request, is written as a
\* comma between quotes.
JsonDumps(model, system_prompt, user_prompt) ==
    <<Quote>> \o EscapeText(model) \o <<Quote, ",", Quote>> \o EscapeText(system_prompt)
        \o <<Quote, ",", Quote>> \o EscapeText(user_prompt) \o <<Quote>>

\* Line 134: hashlib.sha256(payload.encode("utf-8")).hexdigest().  The digest
\* is taken as collision-free and stands for the text it was computed from.
Sha256Hex(payload) == <<"sha256">> \o payload

\* Lines 123-134, with the value of _llm_model() as a parameter.
_cache_key(model, system_prompt, user_prompt) ==
    Sha256Hex(JsonDumps(model, system_prompt, user_prompt))

\* The fingerprint of the next request is computed.
CacheKeyCall ==
    /\ Len(fps) < Len(reqs)
    /\ fps' = Append(fps, _cache_key(reqs[Len(fps) + 1].model,
                                     reqs[Len(fps) + 1].system_prompt,
                                     reqs[Len(fps) + 1].user_prompt))
    /\ UNCHANGED reqs
    /\ UNCHANGED notKey

NextKey == CacheKeyCall

InitKey ==
    /\ reqs \in Requests \X Requests
    /\ fps = <<>>
    /\ ImgIdle
    /\ FanIdle
    /\ PipeIdle
    /\ CacheIdle
    /\ CallIdle

SpecKey == InitKey /\ [][NextKey]_vars

-----------------------------------------------------------------------------
(* Single calls of functions that keep no state.                             *)

\* The call returned v.
Returned(v) == <<v>>

\* Values as _state_preview_value tells them apart.  A string is known by its
\* length; one that was cut carries the length it had (total), as the suffix
\* "... (N chars)" does.  The item "... (N items total)" that closes a cut
\* list is of kind "count" with total = N.  A dict is known by its values.
Str(n) == [kind |-> "str", len |-> n, total |-> 0, items |-> <<>>]

List(items) == [kind |-> "list", len |-> 0, total |-> 0, items |-> items]

Dict(values) == [kind |-> "dict", len |-> 0, total |-> 0, items |-> values]

Bool == [kind |-> "bool", len |-> 0, total |-> 0, items |-> <<>>]

CountItem(n) == [kind |-> "count", len |-> 0, total |-> n, items |-> <<>>]

\* Line 1181: value[:180] and the suffix with len(value).
CutString(value) == [value EXCEPT !.len = PreviewChars, !.total = value.len]

\* Line 1185: value[:6] and the item with len(value).
CutList(value) ==
    [value EXCEPT !.items = SubSeq(value.items, 1, PreviewItems)
                                \o <<CountItem(Len(value.items))>>]

RECURSIVE _state_preview_value(_)
\* Lines 1179-1191.
_state_preview_value(value) ==
    IF value.kind = "str"
    THEN IF value.len <= PreviewChars THEN value ELSE CutString(value)
    ELSE IF value.kind = "list"
    THEN IF Len(value.items) <= PreviewItems THEN value ELSE CutList(value)
    ELSE IF value.kind = "dict"
    THEN [value EXCEPT !.items = [i \in 1..Len(value.items) |->
                                     _state_preview_value(value.items[i])]]
    ELSE value

\* The strings of the model: short, at the limit, and longer.
PreviewStrings == {Str(5), Str(PreviewChars), Str(PreviewChars + 1), Str(346)}

\* Lists of a short and a long string, up to MaxListLen items.
PreviewLists ==
    {List(items) : items \in UNION {[1..n -> {Str(5), Str(346)}] :
                                       n \in {0, 1, PreviewItems, MaxListLen}}}

\* Dicts of one or two values, and a list of such dicts (as story_beats is).
PreviewDicts ==
    {Dict(<<v>>) : v \in PreviewStrings \cup {List([i \in 1..MaxListLen |-> Str(5)])}}
        \cup {Dict(<<v, w>>) : v \in PreviewStrings, w \in {Bool, List(<<Str(346)>>)}}

\* The field values current_state.get(key) the preview is taken of.
PreviewInputs ==
    PreviewStrings \cup PreviewLists \cup PreviewDicts
        \cup {Bool} \cup {List(<<d>>) : d \in PreviewDicts}

\* Lines 1230-1233: _state_preview_value(current_state.get(key)).
StatePreviewCall ==
    /\ callee = "_state_preview_value"
    /\ callRes = <<>>
    /\ callRes' = Returned(_state_preview_value(callArg))
    /\ UNCHANGED <<callee, callArg>>
    /\ UNCHANGED notCall

\* The lists of normalized concepts estimate_priority is called with.
ConceptLists == {[i \in 1..n |-> "c" \o ToString(i)] : n \in 0..MaxConcepts}

\* Lines 366-376, called with a state whose normalized_concepts is callArg.
EstimatePriorityCall ==
    /\ callee = "estimate_priority"
    /\ callRes = <<>>
    /\ callRes' = Returned(estimate_priority(
                      [initial_state(<<>>, <<>>) EXCEPT !.normalized_concepts = callArg]
                  ).priority_concepts)
    /\ UNCHANGED <<callee, callArg>>
    /\ UNCHANGED notCall

\* What json.loads makes of the stripped text: the kind of JSON value it is,
\* "empty" for no text and "invalid" when json.loads raises.
WholeKinds == {"empty", "object", "list", "string", "number", "bool", "null", "invalid"}

\* What json.loads makes of text[start : end + 1], the span from the first
\* "{" to the last "}": there is no such span, it is an object, or it raises.
SpanKinds == {"none", "object", "invalid"}

\* The reply texts of the model.
ParseTexts == [whole : WholeKinds, span : SpanKinds]

\* Lines 180-194.  The value returned is named by its kind; "span_object" is
\* the object parsed from the span.
_parse_json(text) ==
    IF text.whole = "empty" THEN "empty_object"
    ELSE IF text.whole # "invalid" THEN text.whole
    ELSE IF text.span = "object" THEN "span_object"
    ELSE "empty_object"

ParseJsonCall ==
    /\ callee = "_parse_json"
    /\ callRes = <<>>
    /\ callRes' = Returned(_parse_json(callArg))
    /\ UNCHANGED <<callee, callArg>>
    /\ UNCHANGED notCall

\* The beats of a reply: n beats; beat b has `steps` image steps when the
\* reply is uniform and (b + steps) mod (MaxRawSteps + 1) otherwise; every
\* step has a prompt, or every other one.
RawBeatsInput(n, steps, uniform, all) ==
    [b \in 1..n |->
        [label |-> "concept " \o ToString(b - 1), narrative |-> "you",
         is_decision |-> FALSE, choices |-> <<>>,
         image_steps |->
             [i \in 1..(IF uniform THEN steps ELSE (b + steps) % (MaxRawSteps + 1)) |->
                 RawStep(b - 1, i - 1, all \/ i % 2 = 1)]]]

StoryBeatsInputs ==
    { RawBeatsInput(n, steps, uniform, all) :
        n \in 0..MaxRawBeats, steps \in 0..MaxRawSteps, uniform \in BOOLEAN,
        all \in BOOLEAN }

\* Lines 1080-1114 of generate_story_visuals for the beats of a reply: the
\* beats it builds and the jobs it submits for them.
StoryBeatsCall ==
    /\ callee = "generate_story_visuals"
    /\ callRes = <<>>
    /\ callRes' = Returned([story_beats |-> BuildBeats(callArg),
                            jobs |-> JobsFrom(BuildBeats(callArg), 0)])
    /\ UNCHANGED <<callee, callArg>>
    /\ UNCHANGED notCall

\* The concepts generate_learning_event hands to _normalize_story_cards:
\* stripped, distinct up to case (lines 738-757).
CardConcepts ==
    { <<"force">>, <<"force", "mass">>, <<"net force", "mass", "law">>,
      <<"force", "mass", "law", "acceleration">> }

\* Items of the model's story_cards: a card for the first pair, one with the
\* topics reordered, padded and with an unknown importance, one whose topics
\* is a string, one with an unknown topic, one with three topics, one whose
\* topics is no list, and an item that is no object.
CardItemsOfReply ==
    { RawCard("list", <<"force", "mass">>, "low", <<"First">>, <<>>, 700, <<>>),
      RawCard("list", <<"mass", " Force ">>, "urgent", <<>>, << <<"units">> >>, 3, <<>>),
      RawCard("str", <<"law">>, " ", <<"Law">>, <<>>, 0, << <<"Why?">> >>),
      RawCard("list", <<"astrology">>, "high", <<"Stars">>, <<>>, 700, <<>>),
      RawCard("list", <<"law", "acceleration", "force">>, "medium", <<>>, <<>>, 0, <<>>),
      RawCard("other", <<>>, "high", <<>>, <<>>, 0, <<>>),
      [RawCard("list", <<"force", "mass">>, "high", <<>>, <<>>, 0, <<>>)
          EXCEPT !.is_dict = FALSE] }

CardLists ==
    UNION { [1..n -> CardItemsOfReply] : n \in 0..MaxCards }

NormalizeCardsInputs ==
    [llm_cards : [is_list : {TRUE}, items : CardLists]
                 \cup {[is_list |-> FALSE, items |-> <<>>]},
     concepts : CardConcepts]

NormalizeStoryCardsCall ==
    /\ callee = "_normalize_story_cards"
    /\ callRes = <<>>
    /\ callRes' = Returned(normalize_story_cards(callArg.llm_cards, callArg.concepts,
                                                 pair_topics(callArg.concepts)))
    /\ UNCHANGED <<callee, callArg>>
    /\ UNCHANGED notCall

NextCalls ==
    \/ StatePreviewCall
    \/ NormalizeStoryCardsCall
    \/ StoryBeatsCall
    \/ EstimatePriorityCall
    \/ ParseJsonCall

InitCalls ==
    /\ \/ callee = "_state_preview_value" /\ callArg \in PreviewInputs
       \/ callee = "estimate_priority" /\ callArg \in ConceptLists
       \/ callee = "_parse_json" /\ callArg \in ParseTexts
       \/ callee = "generate_story_visuals" /\ callArg \in StoryBeatsInputs
       \/ callee = "_normalize_story_cards" /\ callArg \in NormalizeCardsInputs
    /\ callRes = <<>>
    /\ ImgIdle
    /\ FanIdle
    /\ PipeIdle
    /\ CacheIdle
    /\ KeyIdle

SpecCalls == InitCalls /\ [][NextCalls]_vars

-----------------------------------------------------------------------------
(* Claims about the image client                                            *)

\* C4 (as stated): the instants at which requests reach the image endpoint are
\* pairwise at least 4 s apart, under every interleaving of the callers.
C4_SendsSpacedAtEndpoint == minSendGap >= 4

\* C4 (amended): the dispatch timestamps, i.e. the successive values written to
\* _IMG_LAST_CALL under the lock, are pairwise at least 4 s apart; the request
\* itself leaves after the lock is released, so arrivals may be closer.
C4_DispatchStampsSpaced == minStampGap >= 4

\* Two callers have both been stamped and have both sent a request.
C4_Witness ==
    \E a, b \in Callers : a # b /\ sent[a] >= 1 /\ sent[b] >= 1

\* C5: against an endpoint that fails transiently on every attempt, a call
\* sends at most 4 requests, returns None after the 4th, and does return.
C5_RetryBound ==
    /\ [](endpoint = "always_transient" =>
            \A w \in Callers :
                /\ sent[w] <= 4
                /\ pc[w] = "done" => result[w] = "None"
                /\ (pc[w] = "done" /\ sent[w] > 0) => sent[w] = 4)
    /\ (endpoint = "always_transient" ~> pc[1] = "done")

\* A call that met four transient failures and returned None.
C5_Witness ==
    endpoint = "always_transient" /\ pc[1] = "done" /\ sent[1] = 4
        /\ result[1] = "None"

\* C6: a permanent failure status (neither 200 nor transient) ends the call at
\* once with None; no further request is sent.
C6_PermanentFailureEndsCall ==
    [][\A w \in Callers : \A r \in {"400", "401", "404"} :
          Respond(w, r) => (pc'[w] = "done" /\ result'[w] = "None")]_vars

\* C7: a 200 answer with an unusable payload (no candidates, no inline image
\* data, or an undecodable body) ends the call at once with None.
C7_UnusablePayloadEndsCall ==
    [][\A w \in Callers :
          \A r \in {"200_no_candidates", "200_no_inline", "200_bad_json",
                    "200_bad_shape"} :
             Respond(w, r) => (pc'[w] = "done" /\ result'[w] = "None")]_vars

\* The sleep lengths the claim lists for attempts 0..3.
C8_Sleeps == <<5, 10, 20, 40>>

C8_Transient == {"429", "500", "502", "503", "exception"}

\* C8 (as stated): after a transient outcome at attempt k = 0..3 the call sleeps
\* exactly 5 * 2^k seconds and then retries; a 200 answer with an image ends the
\* call at once with that image.
C8_BackoffThenRetry ==
    [][\A w \in Callers :
          /\ \A r \in C8_Transient :
                Respond(w, r) =>
                    (pc'[w] = "backoff" /\ timer'[w] = C8_Sleeps[attempt[w] + 1])
          /\ Wake(w) => pc'[w] = "loop"
          /\ \A r \in {"200_image_jpeg", "200_image_nomime"} :
                Respond(w, r) => (pc'[w] = "done" /\ result'[w] = ImageOf(r))]_vars

\* C8 (amended): a transient status at attempt k = 0..3 is followed by a sleep
\* of exactly 5 * 2^k seconds, a network exception by that sleep only for
\* k <= 2 (none after the 4th attempt); the call retries after the sleep only
\* for k <= 2 and returns None after the 4th attempt; the sleep is slept in
\* full before the next step; a 200 answer with an image ends the call at once
\* with that image, with no sleep and no further request.
C8_BackoffSchedule ==
    [][\A w \in Callers :
          /\ \A r \in {"429", "500", "502", "503"} :
                Respond(w, r) =>
                    (pc'[w] = "backoff" /\ timer'[w] = C8_Sleeps[attempt[w] + 1])
          /\ Respond(w, "exception") =>
                IF attempt[w] <= 2
                THEN pc'[w] = "backoff" /\ timer'[w] = C8_Sleeps[attempt[w] + 1]
                ELSE pc'[w] = "done" /\ result'[w] = "None" /\ timer'[w] = 0
          /\ (pc[w] = "backoff" /\ pc'[w] # "backoff") =>
                /\ timer[w] = 0
                /\ IF attempt[w] <= 2
                   THEN pc'[w] = "loop" /\ attempt'[w] = attempt[w] + 1
                   ELSE pc'[w] = "done" /\ result'[w] = "None"
          /\ (pc[w] = "backoff" /\ pc'[w] = "backoff") =>
                timer'[w] \in {timer[w], timer[w] - 1}
          /\ \A r \in {"200_image_jpeg", "200_image_nomime"} :
                Respond(w, r) =>
                    /\ pc'[w] = "done" /\ result'[w] = ImageOf(r)
                    /\ timer'[w] = 0 /\ sent'[w] = sent[w]]_vars

\* A call sleeping the 40 s that follow a transient status at attempt 3.
C8_Witness ==
    \E w \in Callers : pc[w] = "backoff" /\ attempt[w] = 3 /\ timer[w] = 40

-----------------------------------------------------------------------------
(* Claims about the fan-out                                                 *)

Slots == (0..(Len(beats) - 1)) \X (0..(StepsPerBeat - 1))

ImageData(bi, si) == beats[bi + 1].image_steps[si + 1].image_data

JobOf(bi, si) == {j \in 1..Len(jobs) : jobs[j][1] = bi /\ jobs[j][2] = si}

\* C9: the image produced for job (bi, si) is stored in slot (bi, si) and in no
\* other slot, and the returned story_beats is the same function of the
\* per-job results for every completion order.
C9_ResultsAtOriginSlot ==
    fanPc \in {"collect", "returned"} =>
        \A x \in Slots :
            /\ ImageData(x[1], x[2]) \in {"", ImageFor(PromptText(x[1], x[2]))}
            /\ \A j \in JobOf(x[1], x[2]) :
                  (fut[j].st = "merged" \/ fanPc = "returned") =>
                      ImageData(x[1], x[2]) =
                          IF fut[j].out = "image"
                          THEN ImageFor(PromptText(x[1], x[2])) ELSE ""
            /\ (JobOf(x[1], x[2]) = {}) => ImageData(x[1], x[2]) = ""

\* Jobs (0,0), (0,1), (1,0); (0,1) finished and was merged first, and its image
\* is at slot (0,1).
C9_Witness ==
    /\ Len(jobs) = 3
    /\ <<jobs[1][1], jobs[1][2]>> = <<0, 0>>
    /\ <<jobs[2][1], jobs[2][2]>> = <<0, 1>>
    /\ <<jobs[3][1], jobs[3][2]>> = <<1, 0>>
    /\ merged = 1 /\ fut[2].st = "merged" /\ fut[2].out = "image"
    /\ ImageData(0, 1) = ImageFor(PromptText(0, 1))

Failed(j) == fut[j].out \in {"None", "raise"}

\* C10: a failed job (None or an exception) leaves its own slot empty, changes
\* no other slot, does not stop its siblings from finishing and being merged,
\* and does not make generate_story_visuals raise.
C10_FailureIsolated ==
    /\ [](/\ fanPc # "raised"
          /\ fanPc = "returned" =>
                \A j \in 1..Len(jobs) :
                    /\ fut[j].st = "merged"
                    /\ Failed(j) => ImageData(jobs[j][1], jobs[j][2]) = ""
                    /\ ~Failed(j) =>
                          ImageData(jobs[j][1], jobs[j][2]) = ImageFor(jobs[j][3]))
    /\ [][\A j \in 1..MaxJobs :
             (fanPc = "collect" /\ j <= Len(jobs) /\ fut[j].st = "finished"
                 /\ Failed(j) /\ fut'[j].st = "merged")
                 => (beats' = beats /\ fanPc' = "collect")]_vars

\* A returned batch in which one job raised, one returned None and one
\* produced an image that is in its slot.
C10_Witness ==
    /\ fanPc = "returned"
    /\ \E a, b, c \in 1..Len(jobs) :
          /\ fut[a].out = "raise" /\ fut[b].out = "None" /\ fut[c].out = "image"
          /\ ImageData(jobs[c][1], jobs[c][2]) = ImageFor(jobs[c][3])
          /\ ImageData(jobs[a][1], jobs[a][2]) = ""

\* C11: at no moment are more than 3 generation jobs executing inside
\* generate_story_visuals, whatever the batch size; the other jobs wait.
C11_AtMostThreeRunning ==
    /\ Cardinality(Running) <= 3
    /\ \A j \in 1..Len(jobs) :
          fut[j].st = "queued" =>
              \A i \in (j + 1)..Len(jobs) : fut[i].st = "queued"

\* A batch of four jobs: three are running and the fourth waits in the queue.
C11_Witness ==
    /\ Len(jobs) = 4
    /\ Cardinality(Running) = 3
    /\ fut[4].st = "queued"

\* C12: no job is submitted for a slot whose prompt is empty, so nothing is
\* requested on its behalf (every submitted job carries a prompt), and the
\* slot's image_data stays the empty string up to and in the returned beats.
C12_EmptyPromptNoJob ==
    /\ \A x \in Slots :
          beats[x[1] + 1].image_steps[x[2] + 1].prompt = "" =>
              (JobOf(x[1], x[2]) = {} /\ ImageData(x[1], x[2]) = "")
    /\ \A j \in 1..Len(jobs) : jobs[j][3] # ""

\* A returned batch in which a beat has a slot without a prompt next to a slot
\* whose image was generated.
C12_Witness ==
    /\ fanPc = "returned"
    /\ \E x, y \in Slots :
          /\ x[1] = y[1]
          /\ beats[x[1] + 1].image_steps[x[2] + 1].prompt = ""
          /\ ImageData(y[1], y[2]) # ""

\* C13: generate_story_visuals returns only after every submitted job has
\* finished and been handled; once it has returned no worker is running and
\* nothing of the batch changes any more.
C13_ReturnsAfterAllJobs ==
    /\ [](fanPc = "returned" =>
            /\ Running = {}
            /\ \A j \in 1..Len(jobs) : fut[j].st = "merged")
    /\ [][fanPc = "returned" => UNCHANGED fanVars]_vars

\* A batch of four jobs has returned with all four futures handled.
C13_Witness ==
    /\ fanPc = "returned"
    /\ Len(jobs) = 4
    /\ merged = 4
    /\ \A j \in 1..4 : fut[j].st = "merged"

-----------------------------------------------------------------------------
(* Claims about the pipeline driver                                          *)

\* C1: in every run of run_pipeline the stages execute in the declared order,
\* each once, none skipped or reordered, and the state one stage returns is
\* exactly the state the next stage receives; a run that reaches END has
\* executed all ten stages.
C1_StagesInDeclaredOrder ==
    node # "idle" =>
        /\ Len(ran) <= Len(StageOrder)
        /\ \A i \in 1..Len(ran) : ran[i].node = StageOrder[i]
        /\ \A i \in 2..Len(ran) : ran[i].received = ran[i - 1].returned
        /\ ran # <<>> => state = ran[Len(ran)].returned
        /\ node \notin {"END", "raised"} => node = StageOrder[Len(ran) + 1]
        /\ node = "END" => Len(ran) = Len(StageOrder)

\* A run that executed all ten stages, the last of which merged an image.
C1_Witness ==
    /\ node = "END"
    /\ Len(ran) = 10
    /\ \E b \in 1..Len(state.story_beats) :
          state.story_beats[b].image_steps[1].image_data # ""

\* The fields a stage may change.
Owned(n) ==
    CASE n = "store_raw_files" -> {"raw_files"}
      [] n = "extract_text" -> {"extracted_text"}
      [] n = "clean_text" -> {"cleaned_text"}
      [] n = "chunk_text" -> {"chunks"}
      [] n = "concept_extraction" -> {"concepts", "llm_used", "llm_status"}
      [] n = "normalize_concepts" -> {"normalized_concepts"}
      [] n = "estimate_priority" -> {"priority_concepts"}
      [] n = "select_scenario_seed" -> {"scenario_seed"}
      [] n = "generate_learning_event" ->
            {"learning_event", "todo_checklist", "interactive_story",
             "final_storytelling", "llm_used", "llm_status"}
      [] n = "generate_story_visuals" -> {"story_beats"}

\* C2: every stage returns its input state with only its owned fields
\* changed: all 15 fields are in the returned state and every field the stage
\* does not own has the value it was received with, whatever the model replied.
C2_StagesChangeOwnedFieldsOnly ==
    \A i \in 1..Len(ran) :
        /\ DOMAIN ran[i].returned = Fields
        /\ \A f \in Fields \ Owned(ran[i].node) :
              ran[i].returned[f] = ran[i].received[f]

\* concept_extraction took concepts from the model (with a repeated concept)
\* and generate_learning_event then took its fallback path.
C2_Witness ==
    /\ Len(ran) >= 9
    /\ ran[5].returned.llm_used
    /\ ran[5].returned.concepts # ran[6].returned.normalized_concepts
    /\ ran[9].returned.learning_event # EmptyDict
    /\ ran[9].returned.learning_event.format = "guided-story-pack"

\* C3: run_pipeline always returns a state with all 15 fields, for every
\* input and every outcome of the external calls: no exception leaves the run.
C3_NoExceptionLeavesRun ==
    /\ node # "raised"
    /\ node = "END" => DOMAIN state = Fields

-----------------------------------------------------------------------------
(* Claims about run_pipeline_with_trace                                      *)

\* C21 (as stated): run_pipeline_with_trace produces one trace event per
\* stage in declaration order, and a complete run yields exactly 9 events.
C21_NineEvents ==
    /\ \A i \in 1..Len(trace) : trace[i].node = StageOrder[i]
    /\ node = "END" => Len(trace) = 9

\* C21 (amended): run_pipeline_with_trace produces exactly one trace event per
\* executed stage, in declaration order; the graph has ten stages, so a
\* complete run yields exactly 10 events.
C21_OneEventPerStage ==
    /\ Len(trace) = Len(ran)
    /\ Len(trace) <= Len(StageOrder)
    /\ \A i \in 1..Len(trace) : trace[i].node = StageOrder[i]
    /\ node = "END" => Len(trace) = 10

\* A complete run, whose first stage changed nothing and whose last event
\* names generate_story_visuals.
C21_Witness ==
    /\ node = "END"
    /\ Len(trace) = 10
    /\ ran[1].returned = ran[1].received
    /\ trace[10].node = "generate_story_visuals"

\* C22: in every trace event updated_fields names only fields owned by the
\* event's stage, never a field the stage left unchanged.
C22_UpdatedFieldsOwnedOnly ==
    \A i \in 1..Len(trace) :
        /\ trace[i].updated_fields \subseteq Owned(trace[i].node)
        /\ \A f \in trace[i].updated_fields : ran[i].returned[f] # ran[i].received[f]

RECURSIVE SizeBounded(_)
\* No string longer than 180 characters and no list longer than 6 items plus
\* the count item, at any depth.
SizeBounded(v) ==
    /\ v.kind = "str" => v.len <= PreviewChars
    /\ v.kind = "list" => Len(v.items) <= PreviewItems + 1
    /\ \A i \in 1..Len(v.items) : SizeBounded(v.items[i])

\* C23: in a preview every string longer than 180 characters, top-level, dict
\* entry or list element, is replaced by its first 180 characters plus a
\* length suffix, every list longer than 6 items by its first 6 items plus a
\* count item, and shorter values appear unchanged.
C23_PreviewSizeBounded ==
    (callee = "_state_preview_value" /\ callRes # <<>>) =>
        /\ SizeBounded(callRes[1])
        /\ SizeBounded(callArg) => callRes[1] = callArg
        /\ (callArg.kind = "str" /\ callArg.len > PreviewChars)
              => callRes[1] = CutString(callArg)
        /\ (callArg.kind = "list" /\ Len(callArg.items) > PreviewItems)
              => /\ Len(callRes[1].items) = PreviewItems + 1
                 /\ callRes[1].items[PreviewItems + 1] = CountItem(Len(callArg.items))

\* C24: estimate_priority keeps the first max(1, min(10, ceil(0.85 n))) of
\* the n >= 1 normalized concepts, in their order, and none for n = 0.
C24_PriorityPrefix ==
    (callee = "estimate_priority" /\ callRes # <<>>) =>
        /\ Len(callRes[1]) <= Len(callArg)
        /\ callRes[1] = SubSeq(callArg, 1, Len(callRes[1]))
        /\ callArg = <<>> => callRes[1] = <<>>
        /\ callArg # <<>> =>
              LET ceil == CHOOSE k \in 0..Len(callArg) :
                              /\ 100 * k >= 85 * Len(callArg)
                              /\ 100 * (k - 1) < 85 * Len(callArg)
              IN Len(callRes[1]) = IF ceil > 10 THEN 10 ELSE IF ceil < 1 THEN 1 ELSE ceil
        /\ Len(callArg) = 3 => Len(callRes[1]) = 3
        /\ Len(callArg) >= 12 => Len(callRes[1]) = 10

\* Thirteen concepts, of which ten were kept.
C24_Witness ==
    /\ callee = "estimate_priority"
    /\ Len(callArg) = 13
    /\ callRes # <<>>
    /\ Len(callRes[1]) = 10
    /\ callRes[1][10] = "c10"

\* C28: _parse_json returns a JSON object for every text: the parsed object,
\* else the object parsed from the outermost {...} span, else the empty
\* object; never a list, string, number or null.
C28_ParseJsonReturnsObject ==
    (callee = "_parse_json" /\ callRes # <<>>) =>
        /\ callRes[1] \in {"object", "span_object", "empty_object"}
        /\ callArg.whole = "object" => callRes[1] = "object"
        /\ (callArg.whole = "invalid" /\ callArg.span = "object")
              => callRes[1] = "span_object"

\* C25: when generate_learning_event takes its fallback path the resulting
\* todo_checklist has at least 4 items.
C25_FallbackChecklistAtLeastFour ==
    \A i \in 1..Len(ran) :
        (/\ ran[i].node = "generate_learning_event"
         /\ ran[i].returned.learning_event.format = "guided-story-pack")
        => Len(ran[i].returned.todo_checklist) >= 4

\* A text mentions a word: the word is one of its fragments.
Mentions(text, word) == \E i \in 1..Len(text) : text[i] = word

\* C26: a run with TTL = 0 and the model service unreachable throughout ends,
\* whatever the cache directory holds, with llm_used false, with the first
\* normalized concept as the focus of scenario_seed, and with a
\* final_storytelling that contains the focus.
C26_OfflineRunIsDeterministic ==
    node = "END" =>
        /\ state.llm_used = FALSE
        /\ state.normalized_concepts # <<>>
              => state.scenario_seed.focus = state.normalized_concepts[1]
        /\ Mentions(state.final_storytelling, state.scenario_seed.focus)

\* The same run when the cache directory holds no entry.
C26_OfflineRunEmptyCache ==
    (node = "END" /\ \A n \in Names : dirent[n] = 0) =>
        /\ state.llm_used = FALSE
        /\ state.normalized_concepts # <<>>
              => state.scenario_seed.focus = state.normalized_concepts[1]
        /\ Mentions(state.final_storytelling, state.scenario_seed.focus)

-----------------------------------------------------------------------------
(* Claims about the response cache                                           *)

\* The payloads that are JSON objects, as the signature of _cache_set_json asks.
DictPayloads == Payloads \ {"json_list"}

\* C14: with a positive TTL, _cache_set_json(k, d) immediately followed by
\* _cache_get_json(k) returns exactly d, for every fingerprint and every
\* object d, and a get that returned a payload returns it again when repeated.
C14_PutThenGet ==
    /\ [][\A k \in Keys : \A d \in DictPayloads :
            (ttl > 0 /\ CacheSetCall(k, d, "none"))
                => (_cache_get_json(k, "none").value)' = d]_vars
    /\ [][\A k \in Keys :
            (CacheGetCall(k, "none") /\ ret'.value # "None")
                => (_cache_get_json(k, "none").value)' = ret'.value]_vars

\* C15: expiry is decided at read time from the stored timestamp: an entry
\* holding an object written at time T is returned at every time t with
\* t - T <= TTL and is absent at every time t with t - T > TTL.
C15_ExpiryAtReadTime ==
    \A k \in Keys :
        (/\ dirent[PathOf(k)] # 0
         /\ IsDictData(inodes[dirent[PathOf(k)]]))
        => _cache_get_json(k, "none").value =
              IF now - inodes[dirent[PathOf(k)]][1].at <= ttl
              THEN DataOf(inodes[dirent[PathOf(k)]])
              ELSE "None"

\* C16: with TTL = 0 caching is disabled: _cache_set_json leaves the store
\* unchanged, _cache_get_json treats every stored entry as absent, and
\* _llm_json never serves a response from the cache.
C16_ZeroTtlDisablesCache ==
    /\ [](ttl = 0 => \A k \in Keys : _cache_get_json(k, "none").value = "None")
    /\ [][\A k \in Keys : \A d \in Payloads :
            (ttl = 0 /\ CacheSetCall(k, d, "none")) => UNCHANGED <<dirent, inodes>>]_vars
    /\ [][\A k \in Keys : \A client \in Clients : \A reply \in ModelReplies :
            (ttl = 0 /\ LlmJsonCall(k, client, reply, "none", "none") /\ ret'.status = "ok")
                => ret'.requested]_vars

\* C17: under every interleaving of writers and readers of one fingerprint a
\* reader sees no entry or one complete entry written by a single put, never
\* a partial or mixed one.
C17_ReaderSeesWholeEntries ==
    ret.op = "get" => ret.value \in {"None"} \cup Payloads

\* C18: no I/O or decoding failure inside the cache is fatal: neither
\* _cache_get_json nor _cache_set_json raises, a failing read returns absent
\* and a failing write leaves the stored entry unchanged.
C18_CacheFailuresNeverFatal ==
    /\ [](ret.op \in {"get", "set"} => ~ret.raised)
    /\ [][\A k \in Keys : \A f \in ReadFaults \ {"none"} :
            CacheGetCall(k, f) => ret'.value = "None"]_vars
    /\ [][\A k \in Keys : \A d \in Payloads : \A f \in WriteFaults \ {"none"} :
            CacheSetCall(k, d, f) => UNCHANGED <<dirent, inodes>>]_vars

\* C19: _cache_key is a function of the model identifier, the system prompt
\* and the user prompt: two requests equal in all three get the same
\* fingerprint, two requests that differ in any of them get different ones.
C19_KeyDeterministicAndInjective ==
    Len(fps) = 2 => (fps[1] = fps[2] <=> reqs[1] = reqs[2])

\* Two requests that differ in one character of the user prompt, a quote
\* among them, got different fingerprints.
C19_Witness ==
    /\ Len(fps) = 2
    /\ reqs[1].model = reqs[2].model
    /\ reqs[1].system_prompt = reqs[2].system_prompt
    /\ reqs[1].user_prompt = <<Quote, ",">>
    /\ reqs[2].user_prompt = <<Quote, Backslash>>
    /\ fps[1] # fps[2]

\* C20: after a call of _llm_json that took a non-empty payload from the model
\* (TTL > 0), every later call for the same request within the TTL returns
\* that payload with status "ok" and without a request, even with no client.
C20_ModelOnlyOnCacheMiss ==
    [][\A k \in Keys : \A client \in Clients : \A reply \in ModelReplies :
         (/\ memo.key = k
          /\ ttl > 0
          /\ now - memo.at <= ttl
          /\ LlmJsonCall(k, client, reply, "none", "none"))
         => (/\ ret'.value = memo.payload
             /\ ret'.status = "ok"
             /\ ~ret'.requested)]_vars

-----------------------------------------------------------------------------
(* Claims about configuration errors                                         *)

\* C27: on a configuration error _llm_json (no library, no API key: the client
\* is None) returns the empty payload with a status other than "ok", sends no
\* request and does not raise.
C27_LlmJsonConfigError ==
    [][\A k \in Keys : \A reply \in ModelReplies :
         \A rf \in ReadFaults : \A wf \in WriteFaults :
            LlmJsonCall(k, "none", reply, rf, wf)
            => (/\ ret'.value = "empty_object"
                /\ ret'.status # "ok"
                /\ ~ret'.requested
                /\ ~ret'.raised)]_vars

\* C27, the part on _generate_image: on a configuration error (no API key, no
\* requests library, no image model) the call returns None, sends no request,
\* does not take the lock and leaves the limiter's timestamp alone.
C27_ImageConfigError ==
    [][\A w \in Callers : \A cfg \in Configs \ {"ok"} :
         Begin(w, cfg)
         => (/\ result'[w] = "None"
             /\ pc'[w] = "done"
             /\ sent' = sent
             /\ imgLock' = imgLock
             /\ lastCallAge' = lastCallAge)]_vars

-----------------------------------------------------------------------------
(* Claims about weakly-typed model payloads                                  *)

\* Stage n raises on the reply, as its node action decides it.
StageRaises(n, st, reply) ==
    CASE n = "concept_extraction" -> GetRaises(reply)
      [] n = "generate_learning_event" -> ReplyTruthy(reply) /\ GetRaises(reply)
      [] n = "generate_story_visuals" -> VisualsRaise(st, reply)
      [] OTHER -> FALSE

\* C29: for a model payload that is a JSON object, whatever the types of its
\* fields, none of concept_extraction, generate_learning_event and
\* generate_story_visuals raises.
C29_ObjectPayloadsNeverRaise ==
    \A reply \in LlmReplies :
        ReplyType(reply) = "dict" => ~StageRaises(node, state, reply)

-----------------------------------------------------------------------------
(* Claims about the scope of the limiter lock                                *)

-----------------------------------------------------------------------------
(* Claims about the limiter's timestamp                                      *)

\* C31: every attempt passes through the limiter before its request: a
\* request is sent only by a caller that has just stamped; _IMG_LAST_CALL is
\* read (the wait is computed) and written only by the caller that holds
\* _IMG_LOCK; a written value is never earlier than the previous one and is at
\* least 4 s later than it.
C31_TimestampUnderLock ==
    /\ [][\A w \in Callers :
            /\ sent'[w] # sent[w] => (pc[w] = "post" /\ sent'[w] = sent[w] + 1)
            /\ (pc'[w] = "post" /\ pc[w] # "post") =>
                  (pc[w] = "pacing" /\ imgLock = w /\ lastCallAge' = 0)
            /\ (pc'[w] = "pacing" /\ pc[w] # "pacing") =>
                  (imgLock = 0 /\ imgLock' = w
                   /\ timer'[w] = Max(PacingWait(lastCallAge), 0))]_vars
    /\ [][lastCallAge' < lastCallAge =>
            /\ \E w \in Callers : imgLock = w /\ pc[w] = "pacing" /\ pc'[w] = "post"
            /\ lastCallAge >= _IMG_MIN_INTERVAL
            /\ lastCallAge' = 0]_vars
    /\ [](minStampGap >= _IMG_MIN_INTERVAL)

\* A caller writes the timestamp for a retry while another caller's request
\* is in flight.
C31_Witness ==
    \E w, v \in Callers :
        /\ w # v
        /\ pc[w] = "post" /\ attempt[w] >= 1 /\ lastCallAge = 0
        /\ pc[v] = "flight"

-----------------------------------------------------------------------------
(* Claims about the end of the retry loop                                    *)

\* C35: backoff sleeps occur only between attempts: after the 4th failed
\* attempt, be it a network exception or a transient status (429, 500, 502,
\* 503), the call returns None without a further sleep.
C35_NoSleepAfterLastAttempt ==
    [][\A w \in Callers : \A r \in {"429", "500", "502", "503", "exception"} :
          (attempt[w] = _IMG_MAX_RETRIES - 1 /\ Respond(w, r))
          => (pc'[w] = "done" /\ result'[w] = "None" /\ timer'[w] = 0)]_vars

-----------------------------------------------------------------------------
(* Claims about what changes the cache directory                             *)

\* C32: entries are created only by successful calls and never deleted by the
\* cache: a call of _llm_json that raises, or whose parsed payload is empty,
\* leaves the directory and every file as they were, and _cache_get_json
\* changes nothing, not even for an expired entry: apart from a direct call
\* of _cache_set_json and damage from outside, the only step that changes
\* the directory or a file is a call of _llm_json that sent a request and
\* returned a non-empty payload with "ok".
C32_OnlySuccessfulCallsWrite ==
    [][(/\ <<dirent, inodes>>' # <<dirent, inodes>>
        /\ ret'.op # "set"
        /\ ~(\E k \in Keys : \E kind \in Damages : Damage(k, kind)))
       => (/\ ret'.op = "llm"
           /\ ~ret'.raised
           /\ ret'.requested
           /\ ret'.status = "ok"
           /\ ret'.value \notin {"empty_object", "None"})]_vars

\* The model answered with an empty payload while the directory holds an
\* entry that has expired.
C32_Witness ==
    /\ ret.op = "llm" /\ ret.requested /\ ret.status = "ok"
    /\ ret.value = "empty_object"
    /\ ttl > 0
    /\ \E k \in Keys :
          /\ dirent[PathOf(k)] # 0
          /\ ~ParseFails(inodes[dirent[PathOf(k)]])
          /\ now - inodes[dirent[PathOf(k)]][1].at > ttl

-----------------------------------------------------------------------------
(* Claims about the size of a batch of visuals                               *)

\* C33: the story_beats that generate_story_visuals builds are the first 10
\* beats of the reply at most; every beat has exactly 3 image_steps, the first
\* 3 of the reply's steps followed by empty slots; so at most 30 jobs are
\* submitted.
C33_BeatsAndStepsBounded ==
    (callee = "generate_story_visuals" /\ callRes # <<>>) =>
        LET out == callRes[1] IN
        /\ Len(out.story_beats) = Min(Len(callArg), 10)
        /\ Len(out.story_beats) <= 10
        /\ \A b \in 1..Len(out.story_beats) :
              /\ Len(out.story_beats[b].image_steps) = 3
              /\ \A i \in 1..3 :
                    out.story_beats[b].image_steps[i] =
                        IF i <= Len(callArg[b].image_steps)
                        THEN [step_label |-> callArg[b].image_steps[i].step_label,
                              prompt |-> callArg[b].image_steps[i].prompt,
                              image_data |-> ""]
                        ELSE [step_label |-> "", prompt |-> "", image_data |-> ""]
        /\ Len(out.jobs) <= 30

\* A reply of 12 beats with 5 prompted steps each: 10 beats are kept and 30
\* jobs submitted.
C33_Witness ==
    /\ callee = "generate_story_visuals" /\ callRes # <<>>
    /\ Len(callArg) = 12
    /\ \A b \in 1..12 : Len(callArg[b].image_steps) = 5
    /\ Len(callRes[1].story_beats) = 10
    /\ Len(callRes[1].jobs) = 30

\* A reply whose beat has one step: two empty slots are added.
C33_WitnessPadded ==
    /\ callee = "generate_story_visuals" /\ callRes # <<>>
    /\ \E b \in 1..Len(callRes[1].story_beats) :
          /\ Len(callArg[b].image_steps) = 1
          /\ callRes[1].story_beats[b].image_steps[2] = EmptyStep

-----------------------------------------------------------------------------
(* Claims about the two runs of run_pipeline_with_trace                      *)

\* The stages executed during a call: those of the stream and those of invoke.
StagesExecuted == Len(callArg[1].trace) + Len(ran)

\* C34: run_pipeline_with_trace returns the final state of the execution its
\* trace describes: the returned state is the initial state with the updates
\* of the trace applied in order, and every stage was executed exactly once
\* during the call.
C34_FinalStateOfTracedRun ==
    callee = "returned" =>
        /\ callRes[1].final_state = callArg[1].current_state
        /\ StagesExecuted = Len(StageOrder)

\* The part of C34 on the returned state alone.
C34_FinalStateMatchesTrace ==
    callee = "returned" => callRes[1].final_state = callArg[1].current_state

-----------------------------------------------------------------------------
(* Claims about the model flags                                              *)

\* C36: at the end of every run llm_status is "ok" exactly when llm_used is
\* true, and llm_used, once a stage has set it, is never reset by a later
\* stage.
C36_FlagsAgree ==
    /\ [](node = "END" => (state.llm_status = "ok" <=> state.llm_used))
    /\ [][state.llm_used => state'.llm_used]_vars

\* The part of C36 on llm_used alone.
C36_UsedNeverReset == [][state.llm_used => state'.llm_used]_vars

-----------------------------------------------------------------------------
(* Claims about the story cards                                              *)

\* The model's item names, as its first two matched topics, the pair.
Covers(item, concepts, pair) ==
    /\ item.is_dict
    /\ item.topics_type # "other"
    /\ Take(MapTopics(item.topics, concepts, {}), 2) # <<>>
    /\ PairKey(Take(MapTopics(item.topics, concepts, {}), 2)) = PairKey(pair)

\* C37: _normalize_story_cards returns exactly one card per topic pair, in
\* pair order, whatever the model returned: card i has the topics of pair i
\* and an importance among high, medium and low, and a pair no item of the
\* model covers gets the fallback card of its rank.
C37_OneCardPerPair ==
    (callee = "_normalize_story_cards" /\ callRes # <<>>) =>
        LET pairs == pair_topics(callArg.concepts)
            out == callRes[1]
            items == callArg.llm_cards.items
        IN /\ Len(out) = Len(pairs)
           /\ \A i \in 1..Len(pairs) :
                 /\ out[i].topics = pairs[i]
                 /\ out[i].importance \in {"high", "medium", "low"}
                 /\ (\A k \in 1..Len(items) : ~Covers(items[k], callArg.concepts, pairs[i]))
                       => out[i] = fallback_story_card(
                                       pairs[i],
                                       importance_for_rank(i - 1, Max(Len(pairs), 1)))

\* Two pairs; the model sent a card with the first pair's topics reordered
\* and an item that is no object: the first card is the model's, the second
\* the fallback card.
C37_Witness ==
    /\ callee = "_normalize_story_cards" /\ callRes # <<>>
    /\ Len(pair_topics(callArg.concepts)) = 2
    /\ Len(callArg.llm_cards.items) = 2
    /\ callArg.llm_cards.items[1].topics = <<"mass", " Force ">>
    /\ ~callArg.llm_cards.items[2].is_dict
    /\ callRes[1][1].topics = <<"force", "mass">>
    /\ callRes[1][1].subtopics = << <<"units">> >>
    /\ callRes[1][2] = fallback_story_card(pair_topics(callArg.concepts)[2],
                                           importance_for_rank(1, 2))

====
